---------------------------- MODULE Spec2Model ----------------------------
(***************************************************************************)
(* The replicated state machine of the meta service:                       *)
(* common/meta/raft-store/src/state_machine/sm.rs.                         *)
(*                                                                         *)
(* The sled tree `sm_tree` is a record with one field per key space.  A    *)
(* call of StateMachine::apply is one step: the closure handed to          *)
(* sm_tree.txn is the operator txn_body, which maps the tree, the entry    *)
(* and the wall clock to the new tree, the closure's value and the         *)
(* subscriber calls made on the way.                                       *)
(***************************************************************************)
EXTENDS Integers, Sequences, FiniteSets, TLC

(***************************************************************************)
(* Option<T>: None is the empty tuple, Some(x) the one-element tuple.      *)
(***************************************************************************)
None == << >>
Some(x) == <<x>>
IsSome(o) == o # None
Unwrap(o) == o[1]

(***************************************************************************)
(* Bounds of the model.                                                    *)
(***************************************************************************)
\* Number of log entries that are committed to the state machine.
MaxIndex == 4
\* The longest list an ExportStream is made of.
MaxItems == 35
\* Raft terms the entries may carry.
Terms == {1, 2}
\* Wall-clock readings (unix seconds) of a replica.
Times == {50, 100, 150}

Keys == {"a", "b"}
V1 == <<118, 49>>
V2 == <<118, 50>>
SeqNames == {"generic-kv", "other"}
NodeIds == {1, 2}
Clients == {"c1", "c2"}

(***************************************************************************)
(* Types of common_meta_types, as far as sm.rs uses them.                  *)
(***************************************************************************)
LogId(term, index) == [term |-> term, index |-> index]

\* LogId is ordered lexicographically by (term, index).
LogIdLess(a, b) == a.term < b.term \/ (a.term = b.term /\ a.index < b.index)

SeqV(seq, meta, data) == [seq |-> seq, meta |-> meta, data |-> data]
KVMeta(expire_at) == [expire_at |-> expire_at]

\* AppliedState
AppliedNone == [tag |-> "None"]
AppliedSeq(n) == [tag |-> "Seq", seq |-> n]
AppliedNode(prev, result) == [tag |-> "Node", node_prev |-> prev, node_result |-> result]
AppliedKV(prev, result) == [tag |-> "KV", prev |-> prev, result |-> result]
AppliedTxnReply(reply) == [tag |-> "TxnReply", reply |-> reply]
AppliedAppError(e) == [tag |-> "AppError", app_err |-> e]

\* Result<AppliedState, MetaStorageError>
Ok(x) == [kind |-> "Ok", state |-> x]
Err(e) == [kind |-> "Err", err |-> e]

\* MatchSeq
MatchAny == [tag |-> "Any"]
MatchEq(n) == [tag |-> "Exact", n |-> n]
MatchGE(n) == [tag |-> "GE", n |-> n]

\* Operation<V>
OpUpdate(v) == [tag |-> "Update", v |-> v]
OpDelete == [tag |-> "Delete"]
OpAsIs == [tag |-> "AsIs"]

\* Cmd
IncrSeq(key) == [tag |-> "IncrSeq", key |-> key]
AddNode(node_id, node) == [tag |-> "AddNode", node_id |-> node_id, node |-> node]
RemoveNode(node_id) == [tag |-> "RemoveNode", node_id |-> node_id]
UpsertKV(key, seq, value, value_meta) ==
    [tag |-> "UpsertKV", key |-> key, seq |-> seq, value |-> value,
     value_meta |-> value_meta]
Transaction(condition, if_then, else_then) ==
    [tag |-> "Transaction", condition |-> condition, if_then |-> if_then,
     else_then |-> else_then]

\* TxnOp requests and TxnCondition
TxnGet(key) == [tag |-> "Get", key |-> key]
TxnPut(key, value, prev_value) ==
    [tag |-> "Put", key |-> key, value |-> value, prev_value |-> prev_value]
TxnDelete(key, prev_value) == [tag |-> "Delete", key |-> key, prev_value |-> prev_value]
\* A TxnOp whose request is not set.
TxnNoRequest == [tag |-> "None"]
TargetSeq(n) == [tag |-> "Seq", target_seq |-> n]
TargetValue(v) == [tag |-> "Value", target_value |-> v]
TxnCondition(key, target, expected) ==
    [key |-> key, target |-> target, expected |-> expected]

\* EntryPayload and LogEntry
Blank == [tag |-> "Blank"]
Normal(txid, cmd) == [tag |-> "Normal", txid |-> txid, cmd |-> cmd]
Membership(mem) == [tag |-> "Membership", mem |-> mem]
Txid(client, serial) == [client |-> client, serial |-> serial]
Entry(log_id, payload) == [log_id |-> log_id, payload |-> payload]

(***************************************************************************)
(* The tree after StateMachine::open on a fresh tree: Initialized is set   *)
(* and every other key space is empty.  A sequence that was never          *)
(* incremented reads as 0 (unwrap_or_default), and a stored sequence is    *)
(* at least 1, so 0 stands for the absent key.                             *)
(***************************************************************************)
EmptyTree ==
    [Sequences |-> [k \in SeqNames |-> 0],
     StateMachineMeta |-> [Initialized |-> None, LastApplied |-> None,
                           LastMembership |-> None],
     Nodes |-> [n \in NodeIds |-> None],
     GenericKV |-> [k \in Keys |-> None],
     ClientLastResps |-> [c \in Clients |-> None]]

\* Mutant: open starts from an empty tree.
open_emptying(tree) == [EmptyTree EXCEPT !.StateMachineMeta.Initialized = Some(TRUE)]

open(tree) ==
    IF IsSome(tree.StateMachineMeta.Initialized)
    THEN tree
    ELSE [tree EXCEPT !.StateMachineMeta.Initialized = Some(TRUE)]

\* GenericKV::NAME, the sequence that numbers the records of GenericKV.
GenericKVName == "generic-kv"

(***************************************************************************)
(* The result of a step inside the batch: the tree as the batch sees it,   *)
(* the value computed, the subscriber calls made (notes) and the records   *)
(* inserted into GenericKV (writes), both in the order they happened.      *)
(*                                                                         *)
(* Where the code binds the result of a call and goes on with it (let r =  *)
(* f(..)?; ...), the rest of the function is an operator of its own that  *)
(* takes the result as a parameter (named after the function, ending in    *)
(* _then or _with).                                                        *)
(***************************************************************************)
Step(tree, res, notes, writes) ==
    [tree |-> tree, res |-> res, notes |-> notes, writes |-> writes]

\* One sub_tree.insert of a record into GenericKV.
Insert(key, seq_kv_value) == [key |-> key, value |-> seq_kv_value]

\* Mutant: the incremented value is returned but not stored.
txn_incr_seq_not_stored(tree, key) ==
    Step(tree, tree.Sequences[key] + 1, << >>, << >>)

\* Mutant: the increment starts over from the key's absence.
txn_incr_seq_from_default(tree, key) ==
    Step([tree EXCEPT !.Sequences[key] = 1], 1, << >>, << >>)

txn_incr_seq(tree, key) ==
    LET curr == tree.Sequences[key] + 1
    IN  Step([tree EXCEPT !.Sequences[key] = curr], curr, << >>, << >>)

apply_incr_seq_then(r) == Step(r.tree, AppliedSeq(r.res), << >>, << >>)

apply_incr_seq_cmd(tree, key) == apply_incr_seq_then(txn_incr_seq(tree, key))

\* Mutant: the node is inserted over an existing one.
apply_add_node_overwriting(tree, node_id, node, prev) ==
    Step([tree EXCEPT !.Nodes[node_id] = Some(node)],
         AppliedNode(prev, IF IsSome(prev) THEN None ELSE Some(node)), << >>, << >>)

apply_add_node_with(tree, node_id, node, prev) ==
    IF IsSome(prev)
    THEN Step(tree, AppliedNode(prev, None), << >>, << >>)
    ELSE Step([tree EXCEPT !.Nodes[node_id] = Some(node)],
              AppliedNode(prev, Some(node)), << >>, << >>)

apply_add_node_cmd(tree, node_id, node) ==
    apply_add_node_with(tree, node_id, node, tree.Nodes[node_id])

\* Mutant: the node is reported but not removed.
apply_remove_node_keeping(tree, node_id, prev) ==
    Step(tree, AppliedNode(prev, None), << >>, << >>)

apply_remove_node_with(tree, node_id, prev) ==
    IF IsSome(prev)
    THEN Step([tree EXCEPT !.Nodes[node_id] = None], AppliedNode(prev, None), << >>, << >>)
    ELSE Step(tree, AppliedNode(prev, None), << >>, << >>)

apply_remove_node_cmd(tree, node_id) ==
    apply_remove_node_with(tree, node_id, tree.Nodes[node_id])

(***************************************************************************)
(* SeqV::get_expire_at is u64::MAX for a record without meta or without    *)
(* expire_at; no clock reading exceeds it, so it is kept as None here and  *)
(* `unexpired` compares only a present expire_at.                          *)
(***************************************************************************)
get_expire_at(seq_value) ==
    IF IsSome(seq_value.meta) THEN Unwrap(seq_value.meta).expire_at ELSE None

expire_at_lt(expire_at, now) == IsSome(expire_at) /\ Unwrap(expire_at) < now

unexpired(seq_value, now) ==
    IF expire_at_lt(get_expire_at(seq_value), now) THEN None ELSE Some(seq_value)

unexpired_opt(seq_value, now) ==
    IF IsSome(seq_value) THEN unexpired(Unwrap(seq_value), now) ELSE None

(***************************************************************************)
(* MatchSeq::match_seq on an Option<SeqV>: TRUE iff the precondition       *)
(* holds.  Exact(n) holds iff the record is present with seq n, GE(n) iff  *)
(* it is present with seq >= n.                                            *)
(***************************************************************************)
match_seq(seq, prev) ==
    CASE seq.tag = "Any" -> TRUE
      [] seq.tag = "Exact" -> IsSome(prev) /\ Unwrap(prev).seq = seq.n
      [] seq.tag = "GE" -> IsSome(prev) /\ Unwrap(prev).seq >= seq.n

\* sub_tree.insert(key, &seq_kv_value) and the value returned.
sub_tree_insert(tree, key, seq_kv_value) ==
    Step([tree EXCEPT !.GenericKV[key] = Some(seq_kv_value)], Some(seq_kv_value), << >>,
         <<Insert(key, seq_kv_value)>>)

\* Mutant: the record is inserted with the seq it was built with.
txn_sub_tree_do_update_then_seq_unset(r, key, seq_kv_value) ==
    sub_tree_insert(r.tree, key, seq_kv_value)

\* Mutant: the record gets the seq after the one that txn_incr_seq returned.
txn_sub_tree_do_update_then_seq_ahead(r, key, seq_kv_value) ==
    sub_tree_insert(r.tree, key, [seq_kv_value EXCEPT !.seq = r.res + 1])

\* The record gets the seq that txn_incr_seq returned (r) and is inserted.
txn_sub_tree_do_update_then(r, key, seq_kv_value) ==
    sub_tree_insert(r.tree, key, [seq_kv_value EXCEPT !.seq = r.res])

\* Mutant: Delete consumes a seq of the "generic-kv" sequence.
txn_sub_tree_do_update_delete_incr(tree, key, prev, value_meta, value_op) ==
    IF value_op.tag = "Delete"
    THEN Step([txn_incr_seq(tree, GenericKVName).tree EXCEPT !.GenericKV[key] = None],
              None, << >>, << >>)
    ELSE IF value_op.tag = "AsIs" /\ ~IsSome(prev)
    THEN Step(tree, None, << >>, << >>)
    ELSE txn_sub_tree_do_update_then(
             txn_incr_seq(tree, GenericKVName), key,
             IF value_op.tag = "Update"
             THEN SeqV(0, value_meta, value_op.v)
             ELSE [Unwrap(prev) EXCEPT !.meta = value_meta])

\* Mutant: an Update without meta keeps the meta of the record it replaces.
txn_sub_tree_do_update_keeping_meta(tree, key, prev, value_meta, value_op) ==
    IF value_op.tag = "Delete"
    THEN Step([tree EXCEPT !.GenericKV[key] = None], None, << >>, << >>)
    ELSE IF value_op.tag = "AsIs" /\ ~IsSome(prev)
    THEN Step(tree, None, << >>, << >>)
    ELSE txn_sub_tree_do_update_then(
             txn_incr_seq(tree, GenericKVName), key,
             IF value_op.tag = "Update"
             THEN SeqV(0,
                       IF IsSome(value_meta) \/ ~IsSome(prev)
                       THEN value_meta
                       ELSE Unwrap(prev).meta,
                       value_op.v)
             ELSE [Unwrap(prev) EXCEPT !.meta = value_meta])

\* Mutant: AsIs rewrites the record under the seq it has.
txn_sub_tree_do_update_as_is_same_seq(tree, key, prev, value_meta, value_op) ==
    IF value_op.tag = "Delete"
    THEN Step([tree EXCEPT !.GenericKV[key] = None], None, << >>, << >>)
    ELSE IF value_op.tag = "AsIs" /\ ~IsSome(prev)
    THEN Step(tree, None, << >>, << >>)
    ELSE IF value_op.tag = "AsIs"
    THEN sub_tree_insert(tree, key, [Unwrap(prev) EXCEPT !.meta = value_meta])
    ELSE txn_sub_tree_do_update_then(
             txn_incr_seq(tree, GenericKVName), key, SeqV(0, value_meta, value_op.v))

txn_sub_tree_do_update(tree, key, prev, value_meta, value_op) ==
    IF value_op.tag = "Delete"
    THEN Step([tree EXCEPT !.GenericKV[key] = None], None, << >>, << >>)
    ELSE IF value_op.tag = "AsIs" /\ ~IsSome(prev)
    THEN Step(tree, None, << >>, << >>)
    ELSE txn_sub_tree_do_update_then(
             txn_incr_seq(tree, GenericKVName), key,
             IF value_op.tag = "Update"
             THEN SeqV(0, value_meta, value_op.v)
             ELSE [Unwrap(prev) EXCEPT !.meta = value_meta])

txn_sub_tree_upsert_then(prev, r) == Step(r.tree, <<prev, r.res>>, << >>, r.writes)

\* Mutant: the seq precondition is not consulted.
txn_sub_tree_upsert_with_unconditional(tree, key, seq, value_op, value_meta, prev) ==
    txn_sub_tree_upsert_then(
        prev, txn_sub_tree_do_update(tree, key, prev, value_meta, value_op))

txn_sub_tree_upsert_with(tree, key, seq, value_op, value_meta, prev) ==
    IF ~match_seq(seq, prev)
    THEN Step(tree, <<prev, prev>>, << >>, << >>)
    ELSE txn_sub_tree_upsert_then(
             prev, txn_sub_tree_do_update(tree, key, prev, value_meta, value_op))

\* Mutant: a record found expired is removed from the tree.
txn_sub_tree_upsert_purging(tree, key, seq, value_op, value_meta, now) ==
    txn_sub_tree_upsert_with(
        IF unexpired_opt(tree.GenericKV[key], now) = None
        THEN [tree EXCEPT !.GenericKV[key] = None]
        ELSE tree,
        key, seq, value_op, value_meta, unexpired_opt(tree.GenericKV[key], now))

\* res is the pair (prev, result).
txn_sub_tree_upsert(tree, key, seq, value_op, value_meta, now) ==
    txn_sub_tree_upsert_with(tree, key, seq, value_op, value_meta,
                             unexpired_opt(tree.GenericKV[key], now))

\* One call of StateMachineSubscriber::kv_changed.
KvChanged(key, prev, current) == [key |-> key, prev |-> prev, current |-> current]

apply_update_kv_then(key, r) ==
    Step(r.tree, AppliedKV(r.res[1], r.res[2]),
         <<KvChanged(key, r.res[1], r.res[2])>>, r.writes)

apply_update_kv_cmd(tree, key, seq, value_op, value_meta, now) ==
    apply_update_kv_then(
        key, txn_sub_tree_upsert(tree, key, seq, value_op, value_meta, now))


(***************************************************************************)
(* Vec<u8> is ordered lexicographically.                                   *)
(***************************************************************************)
RECURSIVE BytesLt(_, _)
BytesLt(a, b) ==
    IF b = << >> THEN FALSE
    ELSE IF a = << >> THEN TRUE
    ELSE IF Head(a) # Head(b) THEN Head(a) < Head(b)
    ELSE BytesLt(Tail(a), Tail(b))

\* ConditionResult, by name; any other number is "Invalid".
return_value_condition_result(expected, target_value, value) ==
    CASE expected = "Eq" -> value.data = target_value
      [] expected = "Gt" -> BytesLt(target_value, value.data)
      [] expected = "Lt" -> BytesLt(value.data, target_value)
      [] expected = "Ne" -> value.data # target_value
      [] expected = "Ge" -> ~BytesLt(value.data, target_value)
      [] expected = "Le" -> ~BytesLt(target_value, value.data)
      [] OTHER -> FALSE

return_seq_condition_result(expected, target_seq, value) ==
    CASE expected = "Eq" -> value.seq = target_seq
      [] expected = "Gt" -> value.seq > target_seq
      [] expected = "Lt" -> value.seq < target_seq
      [] expected = "Ne" -> value.seq # target_seq
      [] expected = "Ge" -> value.seq >= target_seq
      [] expected = "Le" -> value.seq <= target_seq
      [] OTHER -> FALSE

\* SeqV::default(): seq 0, no meta, empty data.
SeqVDefault == SeqV(0, None, << >>)

\* Mutant: an absent record is compared as the default record for a Value
\* target as well.
txn_execute_one_condition_with_default(cond, target, sv) ==
    IF target.tag = "Seq"
    THEN return_seq_condition_result(
             cond.expected, target.target_seq,
             IF IsSome(sv) THEN Unwrap(sv) ELSE SeqVDefault)
    ELSE return_value_condition_result(
             cond.expected, target.target_value,
             IF IsSome(sv) THEN Unwrap(sv) ELSE SeqVDefault)

\* The record is read as stored: sub_tree.get, with no expiry filter.
txn_execute_one_condition_with(cond, target, sv) ==
    IF target.tag = "Seq"
    THEN return_seq_condition_result(
             cond.expected, target.target_seq,
             IF IsSome(sv) THEN Unwrap(sv) ELSE SeqVDefault)
    ELSE IF IsSome(sv)
         THEN return_value_condition_result(cond.expected, target.target_value, Unwrap(sv))
         ELSE FALSE

txn_execute_one_condition(tree, cond) ==
    IF ~IsSome(cond.target)
    THEN FALSE
    ELSE txn_execute_one_condition_with(cond, Unwrap(cond.target), tree.GenericKV[cond.key])

\* Mutant: one condition that holds is enough.
txn_execute_condition_any(tree, condition) ==
    \E i \in 1..Len(condition) : txn_execute_one_condition(tree, condition[i])

txn_execute_condition(tree, condition) ==
    \A i \in 1..Len(condition) : txn_execute_one_condition(tree, condition[i])

\* PbSeqV::from(SeqV): the protobuf SeqV carries seq and data, not meta.
PbSeqV_from(sv) == [seq |-> sv.seq, data |-> sv.data]

PbSeqV_opt(sv) == IF IsSome(sv) THEN Some(PbSeqV_from(Unwrap(sv))) ELSE None

\* In the three operations below res is the TxnOpResponse pushed to the reply.
\* Mutant: Get answers with the record of the key as if it were absent.
txn_execute_get_operation_absent(tree, get) ==
    Step(tree, [tag |-> "Get", key |-> get.key, value |-> None], << >>, << >>)

txn_execute_get_operation(tree, get) ==
    Step(tree,
         [tag |-> "Get", key |-> get.key, value |-> PbSeqV_opt(tree.GenericKV[get.key])],
         << >>, << >>)

txn_execute_put_then(put, r) ==
    Step(r.tree,
         [tag |-> "Put", key |-> put.key,
          prev_value |-> IF put.prev_value THEN PbSeqV_opt(r.res[1]) ELSE None],
         << >>, r.writes)

txn_execute_put_operation(tree, put, now) ==
    txn_execute_put_then(
        put, txn_sub_tree_upsert(tree, put.key, MatchAny, OpUpdate(put.value), None, now))

txn_execute_delete_then(delete, r) ==
    Step(r.tree,
         [tag |-> "Delete", key |-> delete.key, success |-> IsSome(r.res[1]),
          prev_value |-> IF delete.prev_value THEN PbSeqV_opt(r.res[1]) ELSE None],
         << >>, r.writes)

txn_execute_delete_operation(tree, delete, now) ==
    txn_execute_delete_then(
        delete, txn_sub_tree_upsert(tree, delete.key, MatchAny, OpDelete, None, now))

\* The value of an operation that pushed no response.
NoResponse == [tag |-> "NoResponse"]

\* An op without request does nothing and pushes nothing.
txn_execute_operation(tree, op, now) ==
    CASE op.tag = "Get" -> txn_execute_get_operation(tree, op)
      [] op.tag = "Put" -> txn_execute_put_operation(tree, op, now)
      [] op.tag = "Delete" -> txn_execute_delete_operation(tree, op, now)
      [] op.tag = "None" -> Step(tree, NoResponse, << >>, << >>)

\* The loop `for op in ops` of apply_txn_cmd: res is the list of responses.
\* The op at the head is executed on the tree that `acc` left; its response
\* and its inserts are added to those of `acc`.
txn_execute_ops_push(acc, r) ==
    Step(r.tree, IF r.res = NoResponse THEN acc.res ELSE Append(acc.res, r.res), << >>,
         acc.writes \o r.writes)

RECURSIVE txn_execute_ops(_, _, _)
txn_execute_ops(acc, ops, now) ==
    IF ops = << >>
    THEN acc
    ELSE txn_execute_ops(
             txn_execute_ops_push(acc, txn_execute_operation(acc.tree, Head(ops), now)),
             Tail(ops), now)

apply_txn_then(success, r) ==
    Step(r.tree,
         AppliedTxnReply([success |-> success, error |-> "", responses |-> r.res]),
         << >>, r.writes)

apply_txn_with(tree, req, success, now) ==
    apply_txn_then(
        success,
        txn_execute_ops(Step(tree, << >>, << >>, << >>),
                        IF success THEN req.if_then ELSE req.else_then, now))

apply_txn_cmd(tree, req, now) ==
    apply_txn_with(tree, req, txn_execute_condition(tree, req.condition), now)

apply_cmd(tree, cmd, now) ==
    CASE cmd.tag = "IncrSeq" -> apply_incr_seq_cmd(tree, cmd.key)
      [] cmd.tag = "AddNode" -> apply_add_node_cmd(tree, cmd.node_id, cmd.node)
      [] cmd.tag = "RemoveNode" -> apply_remove_node_cmd(tree, cmd.node_id)
      [] cmd.tag = "UpsertKV" ->
             apply_update_kv_cmd(tree, cmd.key, cmd.seq, cmd.value, cmd.value_meta, now)
      [] cmd.tag = "Transaction" -> apply_txn_cmd(tree, cmd, now)

\* ClientLastRespValue
ClientLastRespValue(req_serial_num, res) ==
    [req_serial_num |-> req_serial_num, res |-> res]

\* Mutant: a record that exists is not overwritten.
txn_client_last_resp_update_if_absent(tree, key, serial, applied_state) ==
    IF IsSome(tree.ClientLastResps[key])
    THEN tree
    ELSE [tree EXCEPT !.ClientLastResps[key] =
                          Some(ClientLastRespValue(serial, applied_state))]

txn_client_last_resp_update(tree, key, serial, applied_state) ==
    [tree EXCEPT !.ClientLastResps[key] = Some(ClientLastRespValue(serial, applied_state))]

\* The pair (serial, resp); (0, AppliedState::None) when the client has no record.
client_last_resp_of(v) ==
    IF IsSome(v)
    THEN <<Unwrap(v).req_serial_num, Unwrap(v).res>>
    ELSE <<0, AppliedNone>>

txn_get_client_last_resp(tree, key) == client_last_resp_of(tree.ClientLastResps[key])

\* Mutant: LastApplied is written only when it is absent.
txn_insert_last_applied_if_absent(tree, log_id) ==
    IF IsSome(tree.StateMachineMeta.LastApplied)
    THEN tree
    ELSE [tree EXCEPT !.StateMachineMeta.LastApplied = Some(log_id)]

txn_insert_last_applied(tree, log_id) ==
    [tree EXCEPT !.StateMachineMeta.LastApplied = Some(log_id)]

\* Mutant: LastMembership is written only when it is absent.
txn_insert_last_membership_if_absent(tree, log_id, mem) ==
    IF IsSome(tree.StateMachineMeta.LastMembership)
    THEN tree
    ELSE [tree EXCEPT !.StateMachineMeta.LastMembership =
                          Some([log_id |-> log_id, membership |-> mem])]

\* Mutant: the membership is stored under the default log id.
txn_insert_last_membership_default_log_id(tree, log_id, mem) ==
    [tree EXCEPT !.StateMachineMeta.LastMembership =
                     Some([log_id |-> LogId(0, 0), membership |-> mem])]

txn_insert_last_membership(tree, log_id, mem) ==
    [tree EXCEPT !.StateMachineMeta.LastMembership =
                     Some([log_id |-> log_id, membership |-> mem])]

\* Mutant: the response is not recorded.
apply_normal_then_not_recorded(data, r) == Step(r.tree, Some(r.res), r.notes, r.writes)

\* After apply_cmd returned r: record the response if the entry has a txid.
apply_normal_then(data, r) ==
    IF IsSome(data.txid)
    THEN Step(txn_client_last_resp_update(r.tree, Unwrap(data.txid).client,
                                          Unwrap(data.txid).serial, r.res),
              Some(r.res), r.notes, r.writes)
    ELSE Step(r.tree, Some(r.res), r.notes, r.writes)

\* Mutant: the serial is not compared, the command is always applied.
apply_normal_txid_no_skip(tree, data, last, now) ==
    apply_normal_then(data, apply_cmd(tree, data.cmd, now))

\* An entry with a txid, given the client's (serial, resp) read from the batch.
apply_normal_txid(tree, data, last, now) ==
    IF last[1] = Unwrap(data.txid).serial
    THEN Step(tree, Some(last[2]), << >>, << >>)
    ELSE apply_normal_then(data, apply_cmd(tree, data.cmd, now))

\* The arm EntryPayload::Normal of the closure.
apply_normal(tree, data, now) ==
    IF IsSome(data.txid)
    THEN apply_normal_txid(tree, data,
                           txn_get_client_last_resp(tree, Unwrap(data.txid).client), now)
    ELSE apply_normal_then(data, apply_cmd(tree, data.cmd, now))

(***************************************************************************)
(* The closure of StateMachine::apply, run on the batch's view of the      *)
(* tree: res is the closure's Option<AppliedState>.                        *)
(***************************************************************************)
txn_body_with(t1, log_id, payload, now) ==
    CASE payload.tag = "Blank" -> Step(t1, None, << >>, << >>)
      [] payload.tag = "Normal" -> apply_normal(t1, payload, now)
      [] payload.tag = "Membership" ->
             Step(txn_insert_last_membership(t1, log_id, payload.mem),
                  Some(AppliedNone), << >>, << >>)

txn_body(tree, e, now) ==
    txn_body_with(txn_insert_last_applied(tree, e.log_id), e.log_id, e.payload, now)

\* What apply returns once the batch has committed.
applied_state_of(opt_applied_state) ==
    IF IsSome(opt_applied_state) THEN Unwrap(opt_applied_state) ELSE AppliedNone

\* Mutant: every error of the batch is returned as Err.
apply_error_as_err(meta_sto_err) == Err(meta_sto_err)

\* What apply returns when the batch ended with an error.
apply_error(meta_sto_err) ==
    IF meta_sto_err.tag = "AppError"
    THEN Ok(AppliedAppError(meta_sto_err.app_err))
    ELSE Err(meta_sto_err)

(***************************************************************************)
(* SledTree::txn: the closure's writes become the tree when it returns     *)
(* Ok, and are dropped when it returns an error.                           *)
(***************************************************************************)
\* Mutant: the commit leaves out the GenericKV records of the batch.
txn_commit_without_kv(tree, step) == [step.tree EXCEPT !.GenericKV = tree.GenericKV]

\* Mutant: the commit makes LastApplied visible without the other writes.
txn_commit_last_applied_only(tree, step) ==
    [tree EXCEPT !.StateMachineMeta.LastApplied = step.tree.StateMachineMeta.LastApplied]

txn_commit(tree, step) == step.tree

\* Mutant: the writes of a closure that returned an error are kept.
txn_abort_keeps_writes(tree, step) == step.tree

txn_abort(tree, step) == tree

(***************************************************************************)
(* build_snapshot: every key-value pair of the tree as it is stored (the   *)
(* iteration reads no clock and filters nothing), the last applied log id  *)
(* and a snapshot id made of that log id and the wall clock.  A key space  *)
(* entry is the triple of key space, key and value; a sequence that was    *)
(* never incremented has no entry.  It is only called on a state machine   *)
(* that has applied an entry.                                              *)
(***************************************************************************)
tree_iter(tree) ==
    {<<"Sequences", k, tree.Sequences[k]>> : k \in {x \in SeqNames : tree.Sequences[x] > 0}}
    \cup {<<"StateMachineMeta", k, Unwrap(tree.StateMachineMeta[k])>> :
              k \in {x \in {"Initialized", "LastApplied", "LastMembership"} :
                         IsSome(tree.StateMachineMeta[x])}}
    \cup {<<"Nodes", n, Unwrap(tree.Nodes[n])>> : n \in {x \in NodeIds : IsSome(tree.Nodes[x])}}
    \cup {<<"GenericKV", k, Unwrap(tree.GenericKV[k])>> :
              k \in {x \in Keys : IsSome(tree.GenericKV[x])}}
    \cup {<<"ClientLastResps", c, Unwrap(tree.ClientLastResps[c])>> :
              c \in {x \in Clients : IsSome(tree.ClientLastResps[x])}}

build_snapshot(tree, snapshot_idx) ==
    [snap |-> [kvs |-> tree_iter(tree)],
     last_applied |-> Unwrap(tree.StateMachineMeta.LastApplied),
     snapshot_id |-> <<Unwrap(tree.StateMachineMeta.LastApplied).term,
                       Unwrap(tree.StateMachineMeta.LastApplied).index, snapshot_idx>>]

(***************************************************************************)
(* State.                                                                  *)
(*   sm_tree     the stored tree of this replica                           *)
(*   entry, ret  the entry of the latest call of apply and what it         *)
(*               returned                                                  *)
(*   kv_changed  the subscriber calls made by the latest call              *)
(*   writes      the GenericKV records the latest call inserted, if it     *)
(*               committed                                                 *)
(*   raft        the current term and the index of the latest entry that   *)
(*               the consensus layer saw applied (apply returned Ok)       *)
(*   now         the replica's wall clock                                  *)
(*   commits     the number of batches committed so far                    *)
(*   last_tx     per client, the serial and the response of the latest     *)
(*               committed entry that carried a txid of that client        *)
(*   tx_resps    per txid, the response of the latest committed entry      *)
(*               that carried it                                           *)
(*   hi_seq      the highest seq of any record inserted so far             *)
(*   peer        a second replica fed the same entries: its tree, its      *)
(*               clock and what its latest call of apply returned          *)
(*   inflight    the batch of a call of apply that ran its closure and has *)
(*               not committed yet (None: no call in flight)               *)
(*   snap        a call of build_snapshot: where it is and what it read    *)
(*   hist        the trees that the closures of the committed batches      *)
(*               left, oldest first                                        *)
(*   opens       the number of calls of open                               *)
(*   raised      the error that the batch of the latest call of apply      *)
(*               ended with (None: it committed, or apply was not called)  *)
(*   export      an ExportStream: the list it was made of, the data it     *)
(*               still holds, the chunks it yielded, whether it ended      *)
(***************************************************************************)
VARIABLES sm_tree, entry, ret, kv_changed, writes, raft, now, commits, last_tx,
          tx_resps, hi_seq, peer, inflight, snap, hist, opens, raised, export

vars == <<sm_tree, entry, ret, kv_changed, writes, raft, now, commits, last_tx,
          tx_resps, hi_seq, peer, inflight, snap, hist, opens, raised, export>>

\* The variables of the readers, of open and of the export stream, which the
\* steps below leave alone.
readerVars == <<inflight, snap, hist, opens, export>>

\* No ExportStream was made.
NoExport == [pc |-> "none"]

\* build_snapshot was not called.
SnapIdle == [pc |-> "idle"]

NoEntry == Entry(LogId(0, 0), Blank)
NotCalled == [kind |-> "NotCalled"]

Min(S) == CHOOSE x \in S : \A y \in S : x <= y
Max(S) == CHOOSE x \in S : \A y \in S : x >= y

\* The txids that entries carry.
Serials == {0, 7}
TxidSet == {Txid("c1", 0), Txid("c1", 7), Txid("c2", 7)}

Init ==
    /\ sm_tree = open(EmptyTree)
    /\ entry = NoEntry
    /\ ret = NotCalled
    /\ kv_changed = << >>
    /\ writes = << >>
    /\ raft = [term |-> Min(Terms), index |-> 0]
    /\ now = Min(Times)
    /\ commits = 0
    /\ last_tx = [c \in Clients |-> None]
    /\ tx_resps = [t \in TxidSet |-> None]
    /\ hi_seq = 0
    /\ peer = [tree |-> open(EmptyTree), now |-> Min(Times), ret |-> NotCalled]
    /\ inflight = None
    /\ snap = SnapIdle
    /\ hist = << >>
    /\ opens = 1
    /\ raised = None
    /\ export = NoExport

\* The consensus layer hands out log ids in log order.
NextLogId == LogId(raft.term, raft.index + 1)

HasTxid(e) == e.payload.tag = "Normal" /\ IsSome(e.payload.txid)
TxidOf(e) == Unwrap(e.payload.txid)

\* Errors a key space operation of the batch may end with.
SledError == [tag |-> "SledError"]
AppError == [tag |-> "AppError", app_err |-> "app-error"]

\* The effects of a batch r that committed for entry e.
Committed(e, r) ==
    /\ sm_tree' = txn_commit(sm_tree, r)
    /\ entry' = e
    /\ ret' = Ok(applied_state_of(r.res))
    /\ kv_changed' = r.notes
    /\ writes' = r.writes
    /\ raft' = [raft EXCEPT !.index = e.log_id.index]
    /\ commits' = commits + 1
    /\ last_tx' = IF HasTxid(e)
                  THEN [last_tx EXCEPT ![TxidOf(e).client] =
                            Some([serial |-> TxidOf(e).serial,
                                  state |-> applied_state_of(r.res)])]
                  ELSE last_tx
    /\ tx_resps' = IF HasTxid(e)
                   THEN [tx_resps EXCEPT ![TxidOf(e)] = Some(applied_state_of(r.res))]
                   ELSE tx_resps
    /\ hi_seq' = Max({hi_seq} \cup {r.writes[i].value.seq : i \in 1..Len(r.writes)})
    /\ raised' = None

(***************************************************************************)
(* apply(entry) whose batch commits.                                       *)
(***************************************************************************)
ApplyEntry(e) == Committed(e, txn_body(sm_tree, e, now))

Apply(payloads) ==
    /\ raft.index < MaxIndex
    /\ \E p \in payloads : ApplyEntry(Entry(NextLogId, p))
    /\ UNCHANGED <<now, peer>>
    /\ UNCHANGED readerVars

(***************************************************************************)
(* apply(entry) whose batch ends with an error: the error strikes after    *)
(* some of the closure's subscriber calls and the batch is dropped.  A     *)
(* storage error is returned as Err and the consensus layer keeps the      *)
(* entry; an AppError is returned as Ok(AppliedState::AppError), so the    *)
(* consensus layer goes on to the next entry.                              *)
(***************************************************************************)
Aborted(e, r, err) ==
    /\ sm_tree' = txn_abort(sm_tree, r)
    /\ entry' = e
    /\ ret' = apply_error(err)
    /\ raised' = Some(err)
    /\ \E k \in 0..Len(r.notes) : kv_changed' = SubSeq(r.notes, 1, k)
    /\ writes' = << >>
    /\ raft' = IF apply_error(err).kind = "Ok"
               THEN [raft EXCEPT !.index = e.log_id.index]
               ELSE raft

FailEntry(e, err) == Aborted(e, txn_body(sm_tree, e, now), err)

ApplyError(payloads, errors) ==
    /\ raft.index < MaxIndex
    /\ \E p \in payloads, err \in errors : FailEntry(Entry(NextLogId, p), err)
    /\ UNCHANGED <<now, commits, last_tx, tx_resps, hi_seq, peer>>
    /\ UNCHANGED readerVars

\* A new leader: later entries carry a higher term.
NewTerm ==
    /\ raft.index < MaxIndex
    /\ \E t \in Terms : t > raft.term /\ raft' = [raft EXCEPT !.term = t]
    /\ UNCHANGED <<sm_tree, entry, ret, kv_changed, writes, now, commits, last_tx,
                   tx_resps, hi_seq, raised, peer>>
    /\ UNCHANGED readerVars

\* The wall clock advances.
Tick ==
    /\ \E t \in Times : t > now /\ now' = t
    /\ UNCHANGED <<sm_tree, entry, ret, kv_changed, writes, raft, commits, last_tx,
                   tx_resps, hi_seq, raised, peer>>
    /\ UNCHANGED readerVars

(***************************************************************************)
(* Spec: entries of every payload kind, with and without txid, from two    *)
(* clients; batches may fail.                                              *)
(***************************************************************************)
UpsertA1 == UpsertKV("a", MatchAny, OpUpdate(V1), None)
PutB == Transaction(<< >>, <<TxnPut("b", V2, TRUE)>>, << >>)

Txids == {None} \cup {Some(t) : t \in TxidSet}

Payloads ==
    {Blank, Membership("m1")}
    \cup {Normal(t, UpsertA1) : t \in Txids}
    \cup {Normal(t, IncrSeq(GenericKVName)) : t \in Txids}
    \cup {Normal(Some(Txid("c1", 7)), PutB),
          Normal(Some(Txid("c2", 7)), AddNode(1, "n1")),
          Normal(None, RemoveNode(1))}

FailPayloads == {Normal(Some(Txid("c1", 7)), UpsertA1)}

Next ==
    \/ Apply(Payloads)
    \/ ApplyError(FailPayloads, {SledError, AppError})
    \/ NewTerm

Spec == Init /\ [][Next]_vars

(***************************************************************************)
(* SpecKV: the key-value commands, without txid, on a replica whose clock  *)
(* advances: updates with and without expire_at, seq preconditions,        *)
(* deletes, AsIs, increments of both sequences, and transactions.          *)
(***************************************************************************)
\* A meta whose expire_at is the middle clock reading.
MetaExpiring == Some(KVMeta(Some(100)))

KVCmds ==
    {UpsertA1,
     UpsertKV("a", MatchAny, OpUpdate(V2), MetaExpiring),
     UpsertKV("a", MatchEq(1), OpUpdate(V2), None),
     UpsertKV("a", MatchGE(2), OpAsIs, None),
     UpsertKV("b", MatchAny, OpAsIs, MetaExpiring),
     UpsertKV("a", MatchAny, OpDelete, None),
     UpsertKV("a", MatchGE(1), OpDelete, None),
     IncrSeq(GenericKVName),
     IncrSeq("other"),
     Transaction(<< >>, <<TxnPut("a", V1, TRUE), TxnPut("b", V2, TRUE)>>, << >>),
     Transaction(<<TxnCondition("a", Some(TargetSeq(0)), "Eq")>>,
                 <<TxnPut("a", V2, FALSE), TxnGet("a")>>,
                 <<TxnDelete("a", TRUE), TxnPut("a", V1, TRUE), TxnPut("a", V2, TRUE)>>),
     Transaction(<<TxnCondition("a", Some(TargetValue(V1)), "Eq")>>,
                 <<TxnPut("b", V2, TRUE)>>, <<TxnPut("b", V1, TRUE)>>),
     Transaction(<<TxnCondition("a", Some(TargetSeq(1)), "Ge"),
                   TxnCondition("b", Some(TargetValue(V1)), "Ne")>>,
                 <<TxnDelete("b", TRUE)>>, <<TxnGet("b")>>),
     Transaction(<< >>, <<TxnDelete("b", TRUE)>>, <<TxnPut("a", V1, FALSE)>>),
     Transaction(<< >>, <<TxnPut("b", V1, TRUE), TxnNoRequest, TxnGet("b")>>, << >>)}

KVPayloads == {Normal(None, c) : c \in KVCmds}

NextKV ==
    \/ Apply(KVPayloads)
    \/ Tick

SpecKV == Init /\ [][NextKV]_vars

(***************************************************************************)
(* SpecReplicas: two replicas apply the same entries, each reading its own *)
(* wall clock.                                                             *)
(***************************************************************************)
PeerApplied(r) ==
    peer' = [peer EXCEPT !.tree = txn_commit(peer.tree, r),
                         !.ret = Ok(applied_state_of(r.res))]

PeerApply(e) == PeerApplied(txn_body(peer.tree, e, peer.now))

ApplyBoth(payloads) ==
    /\ raft.index < MaxIndex
    /\ \E p \in payloads : ApplyEntry(Entry(NextLogId, p)) /\ PeerApply(Entry(NextLogId, p))
    /\ UNCHANGED now
    /\ UNCHANGED readerVars

PeerTick ==
    /\ \E t \in Times : t > peer.now /\ peer' = [peer EXCEPT !.now = t]
    /\ UNCHANGED <<sm_tree, entry, ret, kv_changed, writes, raft, now, commits, last_tx,
                   tx_resps, hi_seq, raised>>
    /\ UNCHANGED readerVars

NextReplicas ==
    \/ ApplyBoth(KVPayloads)
    \/ Tick
    \/ PeerTick

SpecReplicas == Init /\ [][NextReplicas]_vars

(***************************************************************************)
(* The physical tree holds the five key spaces one after the other, each   *)
(* under its prefix byte, and within a key space the keys in the order of  *)
(* their encoding.  TreeKeys lists every key of the model in that order.   *)
(***************************************************************************)
TreeKeys ==
    <<<<"Nodes", 1>>, <<"Nodes", 2>>,
      <<"StateMachineMeta", "Initialized">>, <<"StateMachineMeta", "LastApplied">>,
      <<"StateMachineMeta", "LastMembership">>,
      <<"GenericKV", "a">>, <<"GenericKV", "b">>,
      <<"Sequences", "generic-kv">>, <<"Sequences", "other">>,
      <<"ClientLastResps", "c1">>, <<"ClientLastResps", "c2">>>>

\* The key kk = <<key space, key>> has a record in the tree, and its value.
tree_has(tree, kk) ==
    IF kk[1] = "Sequences" THEN tree.Sequences[kk[2]] > 0 ELSE IsSome(tree[kk[1]][kk[2]])

tree_value(tree, kk) ==
    IF kk[1] = "Sequences" THEN tree.Sequences[kk[2]] ELSE Unwrap(tree[kk[1]][kk[2]])

snapshot_kvs_then(tree, keys) ==
    [i \in 1..Len(keys) |-> <<keys[i][1], keys[i][2], tree_value(tree, keys[i])>>]

\* Mutant: the iteration leaves out the key space Sequences.
snapshot_kvs_without_sequences(tree) ==
    snapshot_kvs_then(
        tree, SelectSeq(TreeKeys, LAMBDA kk : kk[1] # "Sequences" /\ tree_has(tree, kk)))

\* The loop of build_snapshot over sm_tree.tree.iter(): kvs, one
\* <<key space, key, value>> per record, in the order of the tree.
snapshot_kvs(tree) ==
    snapshot_kvs_then(tree, SelectSeq(TreeKeys, LAMBDA kk : tree_has(tree, kk)))

\* The record of key kk among the pairs kvs, None if there is none.
kvs_get(kvs, kk) ==
    IF \E i \in 1..Len(kvs) : kvs[i][1] = kk[1] /\ kvs[i][2] = kk[2]
    THEN Some(kvs[CHOOSE i \in 1..Len(kvs) : kvs[i][1] = kk[1] /\ kvs[i][2] = kk[2]][3])
    ELSE None

(***************************************************************************)
(* Import of the pairs of SerializableSnapshot::sled_importable into an    *)
(* empty tree of the same name: every pair becomes a record of its key     *)
(* space.                                                                  *)
(***************************************************************************)
sled_import(kvs) ==
    [Sequences |-> [k \in SeqNames |->
                       IF IsSome(kvs_get(kvs, <<"Sequences", k>>))
                       THEN Unwrap(kvs_get(kvs, <<"Sequences", k>>))
                       ELSE 0],
     StateMachineMeta |-> [k \in {"Initialized", "LastApplied", "LastMembership"} |->
                              kvs_get(kvs, <<"StateMachineMeta", k>>)],
     Nodes |-> [n \in NodeIds |-> kvs_get(kvs, <<"Nodes", n>>)],
     GenericKV |-> [k \in Keys |-> kvs_get(kvs, <<"GenericKV", k>>)],
     ClientLastResps |-> [c \in Clients |-> kvs_get(kvs, <<"ClientLastResps", c>>)]]

(***************************************************************************)
(* SpecReaders: apply in two steps, the closure on the batch and then the  *)
(* commit or the abort of the batch, with build_snapshot running beside    *)
(* it.  build_snapshot reads LastApplied, and later iterates the tree.     *)
(***************************************************************************)
PutAB == Transaction(<< >>, <<TxnPut("a", V1, TRUE), TxnPut("b", V2, TRUE)>>, << >>)

ReaderPayloads ==
    {Membership("m1"),
     Normal(None, UpsertA1),
     Normal(Some(Txid("c1", 7)), PutAB),
     Normal(None, AddNode(1, "n1"))}

\* The closure of apply ran on the batch; its subscriber calls are made.
ApplyBegin(payloads) ==
    /\ inflight = None
    /\ raft.index < MaxIndex
    /\ \E p \in payloads :
           inflight' = Some([entry |-> Entry(NextLogId, p),
                             step |-> txn_body(sm_tree, Entry(NextLogId, p), now)])
    /\ kv_changed' = Unwrap(inflight').step.notes
    /\ UNCHANGED <<sm_tree, entry, ret, writes, raft, now, commits, last_tx, tx_resps,
                   hi_seq, raised, peer, snap, hist, opens>>
    /\ UNCHANGED export

\* The batch in flight commits.
ApplyCommit ==
    /\ inflight # None
    /\ Committed(Unwrap(inflight).entry, Unwrap(inflight).step)
    /\ hist' = Append(hist, Unwrap(inflight).step.tree)
    /\ inflight' = None
    /\ UNCHANGED <<now, peer, snap, opens>>
    /\ UNCHANGED export

\* The batch in flight ends with an error.
ApplyAbort(errors) ==
    /\ inflight # None
    /\ \E err \in errors : Aborted(Unwrap(inflight).entry, Unwrap(inflight).step, err)
    /\ inflight' = None
    /\ UNCHANGED <<now, commits, last_tx, tx_resps, hi_seq, peer, snap, hist, opens>>
    /\ UNCHANGED export

\* Mutant: a missing LastApplied is taken as the default log id.
build_snapshot_begin_or_default(tree, snapshot_idx, at) ==
    [pc |-> "iter",
     at |-> at,
     last_applied |-> IF IsSome(tree.StateMachineMeta.LastApplied)
                      THEN Unwrap(tree.StateMachineMeta.LastApplied)
                      ELSE LogId(0, 0),
     snapshot_idx |-> snapshot_idx]

\* build_snapshot up to the iteration: get_last_applied, the expect that
\* panics when there is none, the clock reading for the snapshot id.
\* `at` is the number of batches committed when it is called.
build_snapshot_begin(tree, snapshot_idx, at) ==
    IF IsSome(tree.StateMachineMeta.LastApplied)
    THEN [pc |-> "iter",
          at |-> at,
          last_applied |-> Unwrap(tree.StateMachineMeta.LastApplied),
          snapshot_idx |-> snapshot_idx]
    ELSE [pc |-> "panicked", at |-> at]

\* build_snapshot from the iteration of the tree to its return: the pairs,
\* the log id read before and the snapshot id "{term}-{index}-{snapshot_idx}".
build_snapshot_iter(tree, s) ==
    [pc |-> "done",
     at |-> s.at,
     snap |-> [kvs |-> snapshot_kvs(tree)],
     last_applied |-> s.last_applied,
     snapshot_id |-> <<s.last_applied.term, s.last_applied.index, s.snapshot_idx>>]

\* One call of build_snapshot is followed.
SnapshotBegin ==
    /\ snap = SnapIdle
    /\ snap' = build_snapshot_begin(sm_tree, now, commits)
    /\ UNCHANGED <<sm_tree, entry, ret, kv_changed, writes, raft, now, commits, last_tx,
                   tx_resps, hi_seq, raised, peer, inflight, hist, opens>>
    /\ UNCHANGED export

SnapshotIter ==
    /\ snap.pc = "iter"
    /\ snap' = build_snapshot_iter(sm_tree, snap)
    /\ UNCHANGED <<sm_tree, entry, ret, kv_changed, writes, raft, now, commits, last_tx,
                   tx_resps, hi_seq, raised, peer, inflight, hist, opens>>
    /\ UNCHANGED export

NextReaders ==
    \/ ApplyBegin(ReaderPayloads)
    \/ ApplyCommit
    \/ ApplyAbort({SledError})
    \/ SnapshotBegin
    \/ SnapshotIter

SpecReaders == Init /\ [][NextReaders]_vars

(***************************************************************************)
(* SpecNodes: the cluster node commands, with and without txid, beside an  *)
(* UpsertKV that fills the other key spaces.                               *)
(***************************************************************************)
NodePayloads ==
    {Normal(None, AddNode(1, "n1")),
     Normal(None, AddNode(1, "n2")),
     Normal(None, AddNode(2, "n2")),
     Normal(Some(Txid("c1", 7)), AddNode(2, "n1")),
     Normal(None, RemoveNode(1)),
     Normal(None, RemoveNode(2)),
     Normal(Some(Txid("c1", 7)), RemoveNode(1)),
     Normal(Some(Txid("c2", 7)), UpsertA1)}

NextNodes ==
    \/ Apply(NodePayloads)
    \/ NewTerm

SpecNodes == Init /\ [][NextNodes]_vars

(***************************************************************************)
(* SpecOpen: a tree that starts empty and is opened again and again, with  *)
(* entries applied between the opens.                                      *)
(***************************************************************************)
InitOpen ==
    /\ sm_tree = EmptyTree
    /\ entry = NoEntry
    /\ ret = NotCalled
    /\ kv_changed = << >>
    /\ writes = << >>
    /\ raft = [term |-> Min(Terms), index |-> 0]
    /\ now = Min(Times)
    /\ commits = 0
    /\ last_tx = [c \in Clients |-> None]
    /\ tx_resps = [t \in TxidSet |-> None]
    /\ hi_seq = 0
    /\ peer = [tree |-> open(EmptyTree), now |-> Min(Times), ret |-> NotCalled]
    /\ inflight = None
    /\ snap = SnapIdle
    /\ hist = << >>
    /\ opens = 0
    /\ raised = None
    /\ export = NoExport

\* StateMachine::open on the stored tree.
Open ==
    /\ opens < MaxIndex
    /\ sm_tree' = open(sm_tree)
    /\ opens' = opens + 1
    /\ UNCHANGED <<entry, ret, kv_changed, writes, raft, now, commits, last_tx, tx_resps,
                   hi_seq, raised, peer, inflight, snap, hist>>
    /\ UNCHANGED export

OpenPayloads ==
    {Membership("m1"),
     Normal(None, UpsertA1),
     Normal(Some(Txid("c1", 7)), IncrSeq(GenericKVName)),
     Normal(None, AddNode(1, "n1"))}

\* apply on a state machine that open returned.
ApplyOpened(payloads) ==
    /\ opens > 0
    /\ Apply(payloads)

NextOpen ==
    \/ Open
    \/ ApplyOpened(OpenPayloads)

SpecOpen == InitOpen /\ [][NextOpen]_vars

(***************************************************************************)
(* SpecErrors: batches that commit and batches that end with one of the    *)
(* errors of MetaStorageError: storage errors of two kinds, and AppError.  *)
(***************************************************************************)
SerdeError == [tag |-> "SerdeError"]

StorageErrors == {SledError, SerdeError}

ErrorPayloads ==
    {Blank,
     Normal(Some(Txid("c1", 7)), UpsertA1),
     Normal(None, PutB)}

NextErrors ==
    \/ Apply(ErrorPayloads)
    \/ ApplyError(ErrorPayloads, StorageErrors \cup {AppError})

SpecErrors == Init /\ [][NextErrors]_vars

(***************************************************************************)
(* SpecTxn: Transactions whose branch reads a key after writing or         *)
(* deleting it, beside UpsertKV (one with expire_at, on a clock that       *)
(* advances) and IncrSeq that move the record and the sequence.            *)
(***************************************************************************)
TxnCmds ==
    {UpsertA1,
     UpsertKV("a", MatchAny, OpUpdate(V2), MetaExpiring),
     IncrSeq(GenericKVName),
     Transaction(<< >>, <<TxnGet("a"), TxnGet("b")>>, << >>),
     Transaction(<< >>,
                 <<TxnGet("a"), TxnPut("a", V2, TRUE), TxnGet("a"), TxnPut("b", V1, FALSE),
                   TxnDelete("a", TRUE), TxnGet("a"), TxnGet("b")>>,
                 << >>),
     Transaction(<<TxnCondition("b", Some(TargetSeq(0)), "Eq")>>,
                 <<TxnPut("b", V2, TRUE), TxnPut("b", V1, TRUE), TxnGet("b")>>,
                 <<TxnDelete("b", FALSE), TxnGet("b"), TxnGet("a")>>)}

TxnPayloads == {Normal(None, c) : c \in TxnCmds}

NextTxn ==
    \/ Apply(TxnPayloads)
    \/ Tick

SpecTxn == Init /\ [][NextTxn]_vars

(***************************************************************************)
(* SpecSeq: every way the "generic-kv" sequence and the seq of a record    *)
(* move or stay: updates, an update whose seq precondition may fail, AsIs, *)
(* delete, a Transaction of two Puts, IncrSeq of the sequence itself, and  *)
(* an UpsertKV with txid that is answered from the record when repeated.   *)
(***************************************************************************)
SeqPayloads ==
    {Normal(Some(Txid("c1", 7)), UpsertA1),
     Normal(None, UpsertKV("a", MatchEq(1), OpUpdate(V2), None)),
     Normal(None, UpsertKV("b", MatchAny, OpAsIs, None)),
     Normal(None, UpsertKV("a", MatchAny, OpDelete, None)),
     Normal(None, IncrSeq(GenericKVName)),
     Normal(None, PutAB)}

NextSeq ==
    \/ Apply(SeqPayloads)
    \/ ApplyError(SeqPayloads, {SledError})

SpecSeq == Init /\ [][NextSeq]_vars

(***************************************************************************)
(* ExportStream (grpc_service.rs): a stream over a list of strings that    *)
(* yields the list in chunks.                                              *)
(***************************************************************************)
\* The 16 of std::cmp::min(16, l).
ChunkSize == 16

\* std::cmp::min
MinOf(a, b) == IF a <= b THEN a ELSE b

\* What a poll yields: Poll::Ready(item) and the data left in the stream.
Polled(item, data) == [item |-> item, data |-> data]

\* Mutant: a stream without data yields an empty chunk.
poll_next_empty_chunk(data) ==
    Polled(Some(SubSeq(data, 1, MinOf(ChunkSize, Len(data)))),
           SubSeq(data, MinOf(ChunkSize, Len(data)) + 1, Len(data)))

\* ExportStream::poll_next on a stream that holds `data`.
poll_next(data) ==
    IF Len(data) = 0
    THEN Polled(None, data)
    ELSE Polled(Some(SubSeq(data, 1, MinOf(ChunkSize, Len(data)))),
                SubSeq(data, MinOf(ChunkSize, Len(data)) + 1, Len(data)))

\* A list of n strings, each different from the others.
Strings(n) == [i \in 1..n |-> ToString(i)]

\* export() makes the stream of the list it was handed.
ExportNew ==
    /\ export = NoExport
    /\ \E n \in 0..MaxItems :
           export' = [pc |-> "streaming", input |-> Strings(n), data |-> Strings(n),
                      chunks |-> << >>]
    /\ UNCHANGED <<sm_tree, entry, ret, kv_changed, writes, raft, now, commits, last_tx,
                   tx_resps, hi_seq, raised, peer, inflight, snap, hist, opens>>

\* The consumer polls the stream until it signals its end.
PollNext ==
    /\ export.pc = "streaming"
    /\ export' = IF IsSome(poll_next(export.data).item)
                 THEN [export EXCEPT
                          !.data = poll_next(export.data).data,
                          !.chunks = Append(@, Unwrap(poll_next(export.data).item))]
                 ELSE [export EXCEPT !.pc = "ended"]
    /\ UNCHANGED <<sm_tree, entry, ret, kv_changed, writes, raft, now, commits, last_tx,
                   tx_resps, hi_seq, raised, peer, inflight, snap, hist, opens>>

NextExport ==
    \/ ExportNew
    \/ PollNext

SpecExport == Init /\ [][NextExport]_vars

(***************************************************************************)
(* Properties.                                                             *)
(***************************************************************************)
\* This step is a call of apply whose batch committed.
IsCommit == commits' = commits + 1

LastApplied == sm_tree.StateMachineMeta.LastApplied

\* The client's record in the tree before the step applies entry'.
StoredResp == sm_tree.ClientLastResps[TxidOf(entry').client]

\* In this step no key space changes, and of StateMachineMeta at most LastApplied.
OnlyLastAppliedChanges ==
    /\ sm_tree'.GenericKV = sm_tree.GenericKV
    /\ sm_tree'.Nodes = sm_tree.Nodes
    /\ sm_tree'.Sequences = sm_tree.Sequences
    /\ sm_tree'.ClientLastResps = sm_tree.ClientLastResps
    /\ sm_tree'.StateMachineMeta.Initialized = sm_tree.StateMachineMeta.Initialized
    /\ sm_tree'.StateMachineMeta.LastMembership = sm_tree.StateMachineMeta.LastMembership

(***************************************************************************)
(* C1: when a Normal entry with txid (c, s) is applied and                 *)
(* ClientLastResps[c] holds serial s, apply returns the stored response    *)
(* and no key space changes; of StateMachineMeta only LastApplied may.     *)
(***************************************************************************)
C1_DuplicateSkipped ==
    [][(/\ IsCommit
        /\ HasTxid(entry')
        /\ IsSome(StoredResp)
        /\ Unwrap(StoredResp).req_serial_num = TxidOf(entry').serial)
       => (/\ ret' = Ok(Unwrap(StoredResp).res)
           /\ writes' = << >>
           /\ OnlyLastAppliedChanges)]_vars

\* The same txid'd UpsertKV was applied at (1,1) and (1,2): the second call
\* returned the first's response, inserted nothing and left "a" at seq 1.
C1_Witness ==
    /\ commits = 2
    /\ entry = Entry(LogId(1, 2), Normal(Some(Txid("c1", 7)), UpsertA1))
    /\ ret = Ok(AppliedKV(None, Some(SeqV(1, None, V1))))
    /\ writes = << >>
    /\ sm_tree.GenericKV["a"] = Some(SeqV(1, None, V1))
    /\ LastApplied = Some(LogId(1, 2))

(***************************************************************************)
(* C2 as stated: an applied Normal entry whose txid (c, s) was carried by  *)
(* an earlier applied entry gets that entry's response and changes no      *)
(* state but LastApplied, whatever was applied between the two.            *)
(***************************************************************************)
C2_AnyTwoSameTxid ==
    [][(IsCommit /\ HasTxid(entry') /\ IsSome(tx_resps[TxidOf(entry')]))
       => (/\ ret' = Ok(Unwrap(tx_resps[TxidOf(entry')]))
           /\ OnlyLastAppliedChanges)]_vars

(***************************************************************************)
(* C2 amended: an applied Normal entry whose txid (c, s) equals the txid   *)
(* of the latest applied entry of client c (no entry of c with another     *)
(* serial was applied in between; entries of other clients, entries        *)
(* without txid, Blank and Membership entries may have been) gets that     *)
(* entry's response and changes no state but LastApplied.                  *)
(***************************************************************************)
C2_SameTxidAsLatestOfClient ==
    [][(/\ IsCommit
        /\ HasTxid(entry')
        /\ IsSome(last_tx[TxidOf(entry').client])
        /\ Unwrap(last_tx[TxidOf(entry').client]).serial = TxidOf(entry').serial)
       => (/\ ret' = Ok(Unwrap(last_tx[TxidOf(entry').client]).state)
           /\ OnlyLastAppliedChanges)]_vars

\* c1 got Seq(1) for serial 7, then c2 got Seq(2), then c1's serial 7 was
\* applied again and answered Seq(1).
C2_Witness ==
    /\ commits = 3
    /\ HasTxid(entry)
    /\ TxidOf(entry) = Txid("c1", 7)
    /\ ret = Ok(AppliedSeq(1))
    /\ sm_tree.ClientLastResps["c2"] = Some(ClientLastRespValue(7, AppliedSeq(2)))
    /\ sm_tree.Sequences[GenericKVName] = 2

\* The entry's command was applied on the batch and its response returned
\* and recorded for the client.
AppliedFresh ==
    /\ sm_tree' = apply_normal_then(
                      entry'.payload,
                      apply_cmd(txn_insert_last_applied(sm_tree, entry'.log_id),
                                entry'.payload.cmd, now)).tree
    /\ ret'.kind = "Ok"
    /\ sm_tree'.ClientLastResps[TxidOf(entry').client] =
           Some(ClientLastRespValue(TxidOf(entry').serial, ret'.state))

(***************************************************************************)
(* C3: a Normal entry with txid (c, s) for a client c that has no record   *)
(* in ClientLastResps is always applied, for every serial s including 0.   *)
(***************************************************************************)
C3_NoRecordNoDedup ==
    [][(IsCommit /\ HasTxid(entry') /\ ~IsSome(StoredResp)) => AppliedFresh]_vars

(***************************************************************************)
(* C4: after a committed apply of a Normal entry with txid (c, s) that was *)
(* not skipped, ClientLastResps[c] is {s, r} with r the AppliedState that  *)
(* apply returned; an entry without txid is never skipped (an IncrSeq      *)
(* increments, the update of "a" inserts) and never changes                *)
(* ClientLastResps.                                                        *)
(***************************************************************************)
C4_ResponseRecorded ==
    [][IsCommit =>
         /\ (HasTxid(entry')
             /\ txn_get_client_last_resp(sm_tree, TxidOf(entry').client)[1]
                    # TxidOf(entry').serial)
            => (/\ ret'.kind = "Ok"
                /\ sm_tree'.ClientLastResps[TxidOf(entry').client] =
                       Some(ClientLastRespValue(TxidOf(entry').serial, ret'.state))
                /\ \A c \in Clients \ {TxidOf(entry').client} :
                       sm_tree'.ClientLastResps[c] = sm_tree.ClientLastResps[c])
         /\ ~HasTxid(entry')
            => (/\ sm_tree'.ClientLastResps = sm_tree.ClientLastResps
                /\ entry'.payload = Normal(None, IncrSeq(GenericKVName))
                   => /\ sm_tree'.Sequences[GenericKVName] =
                             sm_tree.Sequences[GenericKVName] + 1
                      /\ ret' = Ok(AppliedSeq(sm_tree'.Sequences[GenericKVName]))
                /\ entry'.payload = Normal(None, UpsertA1) => Len(writes') = 1)]_vars

\* c1's record was overwritten by an applied entry with another serial, and
\* holds what that call returned.
C4_Witness ==
    /\ commits = 2
    /\ HasTxid(entry)
    /\ TxidOf(entry) = Txid("c1", 0)
    /\ tx_resps[Txid("c1", 7)] = Some(AppliedSeq(1))
    /\ ret = Ok(AppliedSeq(2))
    /\ sm_tree.ClientLastResps["c1"] = Some(ClientLastRespValue(0, AppliedSeq(2)))

\* The serials of client c that applied entries carried so far.
SerialsSeen(c) == {s \in Serials : Txid(c, s) \in TxidSet /\ IsSome(tx_resps[Txid(c, s)])}

(***************************************************************************)
(* C5 as stated: for every client c with a record,                         *)
(* ClientLastResps[c].req_serial is the largest serial among the applied   *)
(* entries of c, and the stored response is the one returned for it.       *)
(***************************************************************************)
C5_LargestSerial ==
    \A c \in Clients :
        IsSome(sm_tree.ClientLastResps[c])
        => /\ SerialsSeen(c) # {}
           /\ Unwrap(sm_tree.ClientLastResps[c]).req_serial_num = Max(SerialsSeen(c))
           /\ Some(Unwrap(sm_tree.ClientLastResps[c]).res)
                  = tx_resps[Txid(c, Max(SerialsSeen(c)))]

(***************************************************************************)
(* C5 amended: for every client c with a record,                           *)
(* ClientLastResps[c].req_serial is the serial of the latest applied       *)
(* entry of c (not the largest), and the stored response is the one that   *)
(* apply returned for that entry.                                          *)
(***************************************************************************)
C5_LatestSerial ==
    \A c \in Clients :
        IsSome(sm_tree.ClientLastResps[c])
        => /\ IsSome(last_tx[c])
           /\ Unwrap(sm_tree.ClientLastResps[c]) =
                  ClientLastRespValue(Unwrap(last_tx[c]).serial, Unwrap(last_tx[c]).state)

\* c1's record holds serial 0 although an entry of c1 with serial 7 was
\* applied before.
C5_Witness ==
    /\ IsSome(sm_tree.ClientLastResps["c1"])
    /\ Unwrap(sm_tree.ClientLastResps["c1"]).req_serial_num = 0
    /\ IsSome(tx_resps[Txid("c1", 7)])
    /\ last_tx["c1"] = Some([serial |-> 0, state |-> Unwrap(sm_tree.ClientLastResps["c1"]).res])

(***************************************************************************)
(* C6: from one committed apply to the next the stored LastApplied         *)
(* strictly increases in the lexicographic order of (term, index); no      *)
(* other step changes it.                                                  *)
(***************************************************************************)
C6_LastAppliedIncreases ==
    [][/\ IsCommit
          => /\ IsSome(sm_tree'.StateMachineMeta.LastApplied)
             /\ IsSome(LastApplied)
                => LogIdLess(Unwrap(LastApplied),
                             Unwrap(sm_tree'.StateMachineMeta.LastApplied))
       /\ ~IsCommit => sm_tree'.StateMachineMeta.LastApplied = LastApplied]_vars

\* Three entries were applied, the later ones in a higher term.
C6_Witness ==
    /\ commits = 3
    /\ LastApplied = Some(LogId(2, 3))
    /\ entry.log_id = LogId(2, 3)

(***************************************************************************)
(* C7: after every apply that returns successfully (Ok), LastApplied       *)
(* equals the entry's log id, for every payload kind and also when the     *)
(* entry was skipped as a duplicate.                                       *)
(***************************************************************************)
C7_LastAppliedIsLogId ==
    ret.kind = "Ok" => LastApplied = Some(entry.log_id)

\* Whenever the batch of the latest call committed, LastApplied is the
\* entry's log id (the part of C7 that the closure decides).
LastAppliedAfterCommit ==
    (ret.kind = "Ok" /\ ret.state.tag # "AppError") => LastApplied = Some(entry.log_id)

(***************************************************************************)
(* C8: every record a committed apply writes gets a seq above the seq of   *)
(* every record written before it, by earlier applies or earlier in the    *)
(* same Transaction; so no two records written carry the same seq.         *)
(***************************************************************************)
C8_SeqIncreases ==
    [][IsCommit =>
         \A i \in 1..Len(writes') :
             /\ writes'[i].value.seq > hi_seq
             /\ \A j \in 1..(i - 1) : writes'[j].value.seq < writes'[i].value.seq]_vars

\* A Transaction wrote two records after an earlier write and an IncrSeq of
\* the "generic-kv" sequence: they got seq 3 and 4.
C8_Witness ==
    /\ commits = 3
    /\ Len(writes) = 2
    /\ writes[1].value.seq = 3
    /\ writes[2].value.seq = 4
    /\ hi_seq = 4

(***************************************************************************)
(* C9 as stated: every record an apply writes has the seq that the         *)
(* "generic-kv" sequence had before that apply, plus one.                  *)
(***************************************************************************)
C9_SeqIsPreApplyPlusOne ==
    [][IsCommit =>
         \A i \in 1..Len(writes') :
             writes'[i].value.seq = sm_tree.Sequences[GenericKVName] + 1]_vars

(***************************************************************************)
(* C9 amended: the i-th record an apply writes has the seq that the        *)
(* "generic-kv" sequence had before that apply, plus i (the value the      *)
(* sequence had just before that write, plus one), and an apply that       *)
(* writes n > 0 records leaves the sequence at its value before the apply  *)
(* plus n.  For an UpsertKV, which writes at most one record, this is the  *)
(* value before the apply plus one.                                        *)
(***************************************************************************)
C9_SeqIsPreWritePlusOne ==
    [][IsCommit =>
         /\ \A i \in 1..Len(writes') :
                writes'[i].value.seq = sm_tree.Sequences[GenericKVName] + i
         /\ Len(writes') > 0
            => sm_tree'.Sequences[GenericKVName] =
                   sm_tree.Sequences[GenericKVName] + Len(writes')
         /\ (entry'.payload.tag = "Normal" /\ entry'.payload.cmd.tag = "UpsertKV")
            => Len(writes') <= 1]_vars

\* A Transaction wrote two records in one apply, numbered consecutively.
C9_Witness ==
    /\ entry.payload.tag = "Normal"
    /\ entry.payload.cmd.tag = "Transaction"
    /\ Len(writes) = 2
    /\ writes[1].value.seq = 2
    /\ writes[2].value.seq = 3
    /\ sm_tree.Sequences[GenericKVName] = 3

(***************************************************************************)
(* C10: two replicas that applied the same entries hold the same stored    *)
(* state, whatever each replica's wall clock was at each apply.            *)
(***************************************************************************)
C10_ReplicasAgree == sm_tree = peer.tree

(***************************************************************************)
(* C11: when two replicas hold the same stored state and apply the same    *)
(* entry, apply returns the same AppliedState on both, whatever each       *)
(* replica's wall clock reads.                                             *)
(***************************************************************************)
C11_SameResponse ==
    [][(IsCommit /\ sm_tree = peer.tree) => ret' = peer'.ret]_vars

\* The entry is a Normal entry whose command is an UpsertKV.
IsUpsert(e) == e.payload.tag = "Normal" /\ e.payload.cmd.tag = "UpsertKV"

\* The record sv is hidden from an operation that reads the clock as t: it
\* carries an expire_at that lies before t.
Hidden(sv, t) ==
    /\ IsSome(sv.meta)
    /\ IsSome(Unwrap(sv.meta).expire_at)
    /\ Unwrap(Unwrap(sv.meta).expire_at) < t

(***************************************************************************)
(* C12: a committed UpsertKV with seq Exact(n) on a key whose record has   *)
(* seq # n changes no key space (so neither the record, nor any other      *)
(* key, nor the "generic-kv" sequence: the next write gets the next seq)   *)
(* and inserts nothing; it returns a Change with prev = result, which is   *)
(* the record itself when the operation sees it (None when the record is   *)
(* hidden by its expire_at).                                               *)
(***************************************************************************)
C12_SeqMismatchNoChange ==
    [][(/\ IsCommit
        /\ IsUpsert(entry')
        /\ entry'.payload.cmd.seq.tag = "Exact"
        /\ IsSome(sm_tree.GenericKV[entry'.payload.cmd.key])
        /\ Unwrap(sm_tree.GenericKV[entry'.payload.cmd.key]).seq # entry'.payload.cmd.seq.n)
       => (/\ OnlyLastAppliedChanges
           /\ writes' = << >>
           /\ ret'.kind = "Ok"
           /\ ret'.state.tag = "KV"
           /\ ret'.state.prev = ret'.state.result
           /\ ret'.state.prev =
                  IF Hidden(Unwrap(sm_tree.GenericKV[entry'.payload.cmd.key]), now)
                  THEN None
                  ELSE sm_tree.GenericKV[entry'.payload.cmd.key])]_vars

\* "a" was written twice and holds seq 2; an update with Exact(1) returned
\* the record as prev and as result, and the sequence is still 2.
C12_Witness ==
    /\ commits = 3
    /\ entry.payload = Normal(None, UpsertKV("a", MatchEq(1), OpUpdate(V2), None))
    /\ IsSome(sm_tree.GenericKV["a"])
    /\ Unwrap(sm_tree.GenericKV["a"]).seq = 2
    /\ ret = Ok(AppliedKV(sm_tree.GenericKV["a"], sm_tree.GenericKV["a"]))
    /\ writes = << >>
    /\ sm_tree.Sequences[GenericKVName] = 2

\* The record of key k as an operation at the replica's clock sees it.
Seen(k) ==
    IF IsSome(sm_tree.GenericKV[k]) /\ ~Hidden(Unwrap(sm_tree.GenericKV[k]), now)
    THEN sm_tree.GenericKV[k]
    ELSE None

\* The seq precondition holds of the record sv (None: no record).
SeqMatches(seq, sv) ==
    \/ seq.tag = "Any"
    \/ seq.tag = "Exact" /\ IsSome(sv) /\ Unwrap(sv).seq = seq.n
    \/ seq.tag = "GE" /\ IsSome(sv) /\ Unwrap(sv).seq >= seq.n

(***************************************************************************)
(* C13: a committed UpsertKV Delete whose seq precondition matches leaves  *)
(* the key absent and returns result = None with prev = the record the     *)
(* operation saw (None when the key was absent, and then nothing changes); *)
(* it leaves every sequence, every other key and the other key spaces as   *)
(* they were.                                                              *)
(***************************************************************************)
C13_DeleteRemoves ==
    [][(/\ IsCommit
        /\ IsUpsert(entry')
        /\ entry'.payload.cmd.value.tag = "Delete"
        /\ SeqMatches(entry'.payload.cmd.seq, Seen(entry'.payload.cmd.key)))
       => (/\ sm_tree'.GenericKV[entry'.payload.cmd.key] = None
           /\ ret' = Ok(AppliedKV(Seen(entry'.payload.cmd.key), None))
           /\ writes' = << >>
           /\ sm_tree'.Sequences = sm_tree.Sequences
           /\ \A k \in Keys \ {entry'.payload.cmd.key} :
                  sm_tree'.GenericKV[k] = sm_tree.GenericKV[k]
           /\ sm_tree'.Nodes = sm_tree.Nodes
           /\ sm_tree'.ClientLastResps = sm_tree.ClientLastResps
           /\ ~IsSome(sm_tree.GenericKV[entry'.payload.cmd.key])
              => (OnlyLastAppliedChanges /\ ret' = Ok(AppliedKV(None, None))))]_vars

\* "a" held seq 1 and was deleted under GE(1): the call returned the record
\* as prev, "a" is absent and the sequence is still 1.
C13_Witness ==
    /\ commits = 2
    /\ entry.payload = Normal(None, UpsertKV("a", MatchGE(1), OpDelete, None))
    /\ ret = Ok(AppliedKV(Some(SeqV(1, None, V1)), None))
    /\ sm_tree.GenericKV["a"] = None
    /\ sm_tree.Sequences[GenericKVName] = 1

\* The expire_at of record sv is t or earlier (sv carries an expire_at).
ExpiredAt(sv, t) ==
    /\ IsSome(sv.meta)
    /\ IsSome(Unwrap(sv.meta).expire_at)
    /\ Unwrap(Unwrap(sv.meta).expire_at) <= t

(***************************************************************************)
(* C14: an upsert on a key whose record carries expire_at = t sees the     *)
(* record as absent (prev = None) exactly when the clock reads t or later, *)
(* and as present at every earlier reading; a record without expire_at is  *)
(* always seen.                                                            *)
(***************************************************************************)
C14_AbsentFromExpireAt ==
    [][(/\ IsCommit
        /\ IsUpsert(entry')
        /\ IsSome(sm_tree.GenericKV[entry'.payload.cmd.key]))
       => (/\ ret'.kind = "Ok"
           /\ ret'.state.tag = "KV"
           /\ ret'.state.prev =
                  IF ExpiredAt(Unwrap(sm_tree.GenericKV[entry'.payload.cmd.key]), now)
                  THEN None
                  ELSE sm_tree.GenericKV[entry'.payload.cmd.key])]_vars

\* What the code does: the record is seen up to and including the reading
\* expire_at, and absent at every later reading.
AbsentAfterExpireAt ==
    [][(IsCommit /\ IsUpsert(entry'))
       => (/\ ret'.kind = "Ok"
           /\ ret'.state.tag = "KV"
           /\ ret'.state.prev = Seen(entry'.payload.cmd.key))]_vars

\* The operations of the branch that the Transaction of entry e executed,
\* given the reply r of apply.
BranchTaken(e, r) ==
    IF r.state.reply.success THEN e.payload.cmd.if_then ELSE e.payload.cmd.else_then

\* Entry e, answered with r, applied an Update or a Delete to key k whose
\* record was hidden: an UpsertKV of k with seq Any, or a Put or Delete of k
\* in the executed branch of a Transaction.
UpdatesOrDeletes(e, r, k) ==
    /\ e.payload.tag = "Normal"
    /\ \/ /\ e.payload.cmd.tag = "UpsertKV"
          /\ e.payload.cmd.key = k
          /\ e.payload.cmd.value.tag \in {"Update", "Delete"}
          /\ e.payload.cmd.seq.tag = "Any"
       \/ /\ e.payload.cmd.tag = "Transaction"
          /\ \E i \in 1..Len(BranchTaken(e, r)) :
                 /\ BranchTaken(e, r)[i].tag \in {"Put", "Delete"}
                 /\ BranchTaken(e, r)[i].key = k

\* Every stored GenericKV record is in the snapshot built at clock reading t.
SnapshotHasRecords(tree, t) ==
    \A k \in Keys :
        IsSome(tree.GenericKV[k])
        => <<"GenericKV", k, Unwrap(tree.GenericKV[k])>> \in build_snapshot(tree, t).snap.kvs

(***************************************************************************)
(* C15: a stored record whose expire_at has passed (lies before the clock  *)
(* reading) keeps its seq, meta and data in every step (a tick of the      *)
(* clock, an apply that reads it as None) except a committed apply of an   *)
(* Update or Delete to its key; and a snapshot built in any state holds    *)
(* every stored record, expired or not.                                    *)
(***************************************************************************)
C15_ExpiredRecordStays ==
    [][/\ \A k \in Keys :
              (/\ IsSome(sm_tree.GenericKV[k])
               /\ Hidden(Unwrap(sm_tree.GenericKV[k]), now)
               /\ sm_tree'.GenericKV[k] # sm_tree.GenericKV[k])
              => (IsCommit /\ UpdatesOrDeletes(entry', ret', k))
       /\ IsSome(sm_tree'.StateMachineMeta.LastApplied)
          => SnapshotHasRecords(sm_tree', now')]_vars

\* "a" was stored with expire_at 100; at clock reading 150 an update with
\* Exact(1) read it as None and wrote nothing: the record is still stored
\* and is in the snapshot.
C15_Witness ==
    /\ now = 150
    /\ commits = 2
    /\ entry.payload = Normal(None, UpsertKV("a", MatchEq(1), OpUpdate(V2), None))
    /\ ret = Ok(AppliedKV(None, None))
    /\ sm_tree.GenericKV["a"] = Some(SeqV(1, MetaExpiring, V2))
    /\ <<"GenericKV", "a", SeqV(1, MetaExpiring, V2)>> \in build_snapshot(sm_tree, now).snap.kvs

(***************************************************************************)
(* C16: an apply that fails with a storage error (returns Err) leaves the  *)
(* whole tree as it was: LastApplied, GenericKV, Nodes, Sequences,         *)
(* LastMembership and ClientLastResps; and when the entry is submitted     *)
(* again and no committed entry of its client carried its serial last, it  *)
(* is applied, not answered from ClientLastResps.                          *)
(***************************************************************************)
C16_StorageErrorAborts ==
    [][/\ (ret'.kind = "Err" /\ ~IsCommit) => sm_tree' = sm_tree
       /\ (/\ IsCommit
           /\ ret.kind = "Err"
           /\ entry'.payload = entry.payload
           /\ HasTxid(entry')
           /\ \/ ~IsSome(last_tx[TxidOf(entry').client])
              \/ Unwrap(last_tx[TxidOf(entry').client]).serial # TxidOf(entry').serial)
          => AppliedFresh]_vars

\* After one committed entry, the entry at index 2 failed with a storage
\* error: LastApplied is still (1,1), "a" was not written and c1 has no
\* record.
C16_Witness ==
    /\ ret = Err(SledError)
    /\ entry = Entry(LogId(1, 2), Normal(Some(Txid("c1", 7)), UpsertA1))
    /\ commits = 1
    /\ LastApplied = Some(LogId(1, 1))
    /\ sm_tree.GenericKV["a"] = None
    /\ sm_tree.ClientLastResps["c1"] = None
    /\ sm_tree.Sequences[GenericKVName] = 1

(***************************************************************************)
(* C17: when applying an entry ends with an application error, apply       *)
(* returns AppliedState::AppError and LastApplied is the entry's log id.   *)
(***************************************************************************)
C17_AppErrorCommitsLastApplied ==
    (ret.kind = "Ok" /\ ret.state.tag = "AppError") => LastApplied = Some(entry.log_id)

\* The entry is a Normal entry whose command is a Transaction.
IsTxn(e) == e.payload.tag = "Normal" /\ e.payload.cmd.tag = "Transaction"

\* Every condition of the Transaction of entry e holds of the tree.
AllConditionsHold(tree, e) ==
    \A i \in 1..Len(e.payload.cmd.condition) :
        txn_execute_one_condition(tree, e.payload.cmd.condition[i])

\* The number of Put operations in ops.
NumPuts(ops) == Cardinality({i \in 1..Len(ops) : ops[i].tag = "Put"})

(***************************************************************************)
(* C18: a committed Transaction replies success = TRUE iff every condition *)
(* of its list holds (all of an empty list do).  It executes exactly the   *)
(* operations of if_then when success, of else_then otherwise: the tree    *)
(* is the one these operations leave, one record is written per Put of     *)
(* that branch, and a key that the branch neither puts nor deletes keeps   *)
(* its record.  success does not depend on the responses.                  *)
(***************************************************************************)
C18_TxnBranch ==
    [][(IsCommit /\ IsTxn(entry'))
       => (/\ ret'.kind = "Ok"
           /\ ret'.state.tag = "TxnReply"
           /\ ret'.state.reply.success = AllConditionsHold(sm_tree, entry')
           /\ Len(entry'.payload.cmd.condition) = 0 => ret'.state.reply.success
           /\ sm_tree' = txn_execute_ops(
                             Step(txn_insert_last_applied(sm_tree, entry'.log_id),
                                  << >>, << >>, << >>),
                             BranchTaken(entry', ret'), now).tree
           /\ Len(writes') = NumPuts(BranchTaken(entry', ret'))
           /\ \A k \in Keys :
                  (\A i \in 1..Len(BranchTaken(entry', ret')) :
                       \/ BranchTaken(entry', ret')[i].tag \in {"Get", "None"}
                       \/ BranchTaken(entry', ret')[i].key # k)
                  => sm_tree'.GenericKV[k] = sm_tree.GenericKV[k])]_vars

\* "a" holds seq 1 and "b" is absent: of the two conditions the first holds
\* and the second does not, so the reply is success = FALSE with the
\* response of else_then's Get, and the Delete of if_then was not executed.
C18_Witness ==
    /\ commits = 2
    /\ IsTxn(entry)
    /\ Len(entry.payload.cmd.condition) = 2
    /\ sm_tree.GenericKV["a"] = Some(SeqV(1, None, V1))
    /\ ret = Ok(AppliedTxnReply([success |-> FALSE, error |-> "",
                                 responses |-> <<[tag |-> "Get", key |-> "b",
                                                  value |-> None]>>]))

\* The comparison operators of a condition, and the comparison of two
\* numbers that each stands for.
CondOps == {"Eq", "Gt", "Lt", "Ne", "Ge", "Le"}

NumCompare(op, x, y) ==
    CASE op = "Eq" -> x = y
      [] op = "Gt" -> x > y
      [] op = "Lt" -> x < y
      [] op = "Ne" -> x # y
      [] op = "Ge" -> x >= y
      [] op = "Le" -> x <= y

\* The targets that conditions are evaluated with below.
CondValues == {V1, V2, << >>}
CondSeqs == {0, 1, 2}

\* On every key that has no record in the tree, a Value condition fails for
\* every operator and value, and a Seq(n) condition is the comparison of 0
\* with n.
AbsentKeyConditions(tree) ==
    \A k \in Keys :
        tree.GenericKV[k] = None
        => /\ \A op \in CondOps, v \in CondValues :
                  ~txn_execute_one_condition(tree, TxnCondition(k, Some(TargetValue(v)), op))
           /\ \A op \in CondOps, n \in CondSeqs :
                  txn_execute_one_condition(tree, TxnCondition(k, Some(TargetSeq(n)), op))
                      = NumCompare(op, 0, n)

(***************************************************************************)
(* C19: a condition on an absent key fails when its target is Value, for   *)
(* every operator (Ne included), and with target Seq(n) it compares seq 0  *)
(* with n; a committed Transaction whose only condition is {k, Seq(0), Eq} *)
(* on an absent key k replies success and its Put of k stores k with the   *)
(* next seq (seq 1 on an empty store).                                     *)
(***************************************************************************)
C19_AbsentKeyCondition ==
    [][/\ AbsentKeyConditions(sm_tree)
       /\ AbsentKeyConditions(sm_tree')
       /\ (/\ IsCommit
           /\ IsTxn(entry')
           /\ entry'.payload.cmd.condition = <<TxnCondition("a", Some(TargetSeq(0)), "Eq")>>
           /\ sm_tree.GenericKV["a"] = None)
          => (/\ ret'.state.reply.success
              /\ sm_tree'.GenericKV["a"] =
                     Some(SeqV(sm_tree.Sequences[GenericKVName] + 1, None, V2)))]_vars

\* On the empty store the Transaction with condition {"a", Seq(0), Eq} was
\* applied: it replied success and its Put stored "a" with seq 1.
C19_Witness ==
    /\ commits = 1
    /\ IsTxn(entry)
    /\ entry.payload.cmd.condition = <<TxnCondition("a", Some(TargetSeq(0)), "Eq")>>
    /\ ret.kind = "Ok"
    /\ ret.state.reply.success
    /\ sm_tree.GenericKV["a"] = Some(SeqV(1, None, V2))
    /\ sm_tree.GenericKV["b"] = None

\* Condition c evaluated on the record of its key as an operation at the
\* replica's clock sees it: None when the stored record is expired.
HoldsOfSeen(c) == txn_execute_one_condition_with(c, Unwrap(c.target), Seen(c.key))

(***************************************************************************)
(* C20: a committed Transaction evaluates each condition on the record of  *)
(* its key with an expired record read as absent: a Value condition on an  *)
(* expired record fails and a Seq condition compares seq 0, so success is  *)
(* the conjunction of the conditions evaluated that way.                   *)
(***************************************************************************)
C20_ConditionOnExpired ==
    [][(IsCommit /\ IsTxn(entry'))
       => (ret'.state.reply.success
              = \A i \in 1..Len(entry'.payload.cmd.condition) :
                    HoldsOfSeen(entry'.payload.cmd.condition[i]))]_vars


C22_OneResponsePerOp ==
    [][(IsCommit /\ IsTxn(entry')) =>
           /\ sm_tree' = txn_execute_ops(
                             Step(txn_insert_last_applied(sm_tree, entry'.log_id),
                                  << >>, << >>, << >>),
                             BranchTaken(entry', ret'), now).tree
           /\ Len(ret'.state.reply.responses) = Len(BranchTaken(entry', ret'))
           /\ \A i \in 1..Len(BranchTaken(entry', ret')) :
                  /\ ret'.state.reply.responses[i].tag = BranchTaken(entry', ret')[i].tag
                  /\ ret'.state.reply.responses[i].key = BranchTaken(entry', ret')[i].key]_vars

\* What holds of the responses: one per operation that carries a request,
\* in the order of these operations.
WithRequest(ops) == SelectSeq(ops, LAMBDA op : op.tag # "None")

ResponsePerRequest ==
    [][(IsCommit /\ IsTxn(entry')) =>
           /\ Len(ret'.state.reply.responses) = Len(WithRequest(BranchTaken(entry', ret')))
           /\ \A i \in 1..Len(WithRequest(BranchTaken(entry', ret'))) :
                  /\ ret'.state.reply.responses[i].tag =
                         WithRequest(BranchTaken(entry', ret'))[i].tag
                  /\ ret'.state.reply.responses[i].key =
                         WithRequest(BranchTaken(entry', ret'))[i].key]_vars


\* The entry applied by this step is answered with what
\* txn_get_client_last_resp returns for its client, not executed.
AnsweredFromRecord ==
    /\ HasTxid(entry')
    /\ txn_get_client_last_resp(sm_tree, TxidOf(entry').client)[1] = TxidOf(entry').serial

\* This step commits a command with tag `tag` that is executed.
Executes(tag) ==
    /\ IsCommit
    /\ entry'.payload.tag = "Normal"
    /\ entry'.payload.cmd.tag = tag
    /\ ~AnsweredFromRecord

\* The tree after this step is the one before it but for Nodes, which is
\* `nodes`, for LastApplied, and for the record of the entry's client if it
\* carries a txid.
OnlyNodesChange(nodes) ==
    sm_tree' = [sm_tree EXCEPT
                   !.Nodes = nodes,
                   !.StateMachineMeta.LastApplied = Some(entry'.log_id),
                   !.ClientLastResps =
                       IF HasTxid(entry')
                       THEN [@ EXCEPT ![TxidOf(entry').client] =
                                Some(ClientLastRespValue(TxidOf(entry').serial, ret'.state))]
                       ELSE @]

(***************************************************************************)
(* C23: AddNode(id, node) on an id that is stored leaves Nodes as it is    *)
(* and returns {prev: the stored node, result: None}; on an id that is not *)
(* stored it inserts node and returns {prev: None, result: node}.  So when *)
(* AddNode of an id follows the AddNode that inserted N for that id (one   *)
(* without txid, so that it was executed), the stored node is still N.     *)
(***************************************************************************)
C23_AddNodeKeepsExisting ==
    [][Executes("AddNode") =>
           /\ IsSome(sm_tree.Nodes[entry'.payload.cmd.node_id]) =>
                  /\ OnlyNodesChange(sm_tree.Nodes)
                  /\ ret' = Ok(AppliedNode(sm_tree.Nodes[entry'.payload.cmd.node_id], None))
           /\ ~IsSome(sm_tree.Nodes[entry'.payload.cmd.node_id]) =>
                  /\ OnlyNodesChange([sm_tree.Nodes EXCEPT
                                          ![entry'.payload.cmd.node_id] =
                                              Some(entry'.payload.cmd.node)])
                  /\ ret' = Ok(AppliedNode(None, Some(entry'.payload.cmd.node)))
           /\ (/\ entry.payload.tag = "Normal"
               /\ ~HasTxid(entry)
               /\ entry.payload.cmd.tag = "AddNode"
               /\ entry.payload.cmd.node_id = entry'.payload.cmd.node_id
               /\ ret = Ok(AppliedNode(None, Some(entry.payload.cmd.node)))) =>
                  sm_tree'.Nodes[entry'.payload.cmd.node_id] = Some(entry.payload.cmd.node)]_vars

\* AddNode(1, n1) at (1,1), then AddNode(1, n2) at (1,2): the second call
\* returned the stored n1 as prev and node 1 is still n1.
C23_Witness ==
    /\ commits = 2
    /\ entry = Entry(LogId(1, 2), Normal(None, AddNode(1, "n2")))
    /\ ret = Ok(AppliedNode(Some("n1"), None))
    /\ sm_tree.Nodes[1] = Some("n1")
    /\ LastApplied = Some(LogId(1, 2))

(***************************************************************************)
(* C24: RemoveNode(id) on an id that is stored removes it and returns      *)
(* {prev: the node, result: None}; on an id that is not stored it returns  *)
(* {prev: None, result: None}.  No other node changes, and of the other    *)
(* key spaces only LastApplied and, for an entry with txid, the record of  *)
(* its client.                                                             *)
(***************************************************************************)
C24_RemoveNode ==
    [][Executes("RemoveNode") =>
           /\ OnlyNodesChange([sm_tree.Nodes EXCEPT ![entry'.payload.cmd.node_id] = None])
           /\ ret' = Ok(AppliedNode(sm_tree.Nodes[entry'.payload.cmd.node_id], None))]_vars

\* Nodes 1 and 2 were added, then RemoveNode(1) with txid (c1,7) at (1,3):
\* it returned n1, node 1 is gone, node 2 is kept and c1's record holds
\* the response.
C24_Witness ==
    /\ commits = 3
    /\ entry = Entry(LogId(1, 3), Normal(Some(Txid("c1", 7)), RemoveNode(1)))
    /\ ret = Ok(AppliedNode(Some("n1"), None))
    /\ sm_tree.Nodes[1] = None
    /\ sm_tree.Nodes[2] = Some("n2")
    /\ sm_tree.ClientLastResps["c1"] =
           Some(ClientLastRespValue(7, AppliedNode(Some("n1"), None)))
    /\ LastApplied = Some(LogId(1, 3))


(***************************************************************************)
(* C25: the subscriber's kv_changed is called only after the batch of the  *)
(* apply has committed: whenever calls were made for the latest apply, no  *)
(* batch is in flight, the apply returned Ok with the command's response,  *)
(* and the tree holds the entry as LastApplied.                            *)
(***************************************************************************)
C25_NotifiedAfterCommit ==
    kv_changed # << >> =>
        /\ inflight = None
        /\ ret.kind = "Ok"
        /\ ret.state.tag = "KV"
        /\ LastApplied = Some(entry.log_id)


(***************************************************************************)
(* C26: build_snapshot panics exactly when it is called on a state machine *)
(* that has no LastApplied, that is, to which no entry was applied.  When  *)
(* it returns and no batch committed since it was called, the log id it    *)
(* returns is the stored LastApplied, and its snapshot id begins with the  *)
(* term and the index of that log id.                                      *)
(***************************************************************************)
C26_SnapshotNeedsLastApplied ==
    /\ snap.pc = "panicked" => snap.at = 0
    /\ snap.pc \in {"iter", "done"} => snap.at > 0
    /\ (snap.pc = "done" /\ snap.at = commits) =>
           /\ LastApplied = Some(snap.last_applied)
           /\ snap.snapshot_id[1] = Unwrap(LastApplied).term
           /\ snap.snapshot_id[2] = Unwrap(LastApplied).index
    /\ snap.pc = "done" =>
           /\ snap.snapshot_id[1] = snap.last_applied.term
           /\ snap.snapshot_id[2] = snap.last_applied.index
           /\ snap.last_applied = Unwrap(hist[snap.at].StateMachineMeta.LastApplied)

\* build_snapshot was called after two committed entries and returned
\* with no apply beside it: log id (1,2), snapshot id "1-2-...".
C26_Witness ==
    /\ snap.pc = "done"
    /\ snap.at = 2
    /\ commits = 2
    /\ inflight = None
    /\ LastApplied = Some(LogId(1, 2))
    /\ snap.last_applied = LogId(1, 2)
    /\ snap.snapshot_id = <<1, 2, now>>


\* The place of the key of a pair in the order of the tree.
KeyIndex(kv) ==
    CHOOSE i \in 1..Len(TreeKeys) : TreeKeys[i][1] = kv[1] /\ TreeKeys[i][2] = kv[2]

C28_ReaderSeesWholeEntries ==
    /\ hist = << >> => LastApplied = None
    /\ hist # << >> => sm_tree = hist[Len(hist)]
    /\ \A i \in 1..Len(hist) :
           /\ IsSome(hist[i].StateMachineMeta.LastApplied)
           /\ i > 1 => Unwrap(hist[i].StateMachineMeta.LastApplied).index >
                           Unwrap(hist[i - 1].StateMachineMeta.LastApplied).index
    /\ snap.pc = "done" =>
           \E j \in snap.at..Len(hist) :
               /\ sled_import(snap.snap.kvs) = hist[j]
               /\ Unwrap(hist[j].StateMachineMeta.LastApplied).index >= snap.last_applied.index

\* A reader read LastApplied = (1,1); the Transaction that puts "a" and "b"
\* committed at (1,2); the reader then read both records and the
\* LastApplied (1,2), while the next batch is in flight.
C28_Witness ==
    /\ snap.pc = "done"
    /\ snap.at = 1
    /\ snap.last_applied = LogId(1, 1)
    /\ Len(hist) = 2
    /\ IsSome(inflight)
    /\ entry = Entry(LogId(1, 2), Normal(Some(Txid("c1", 7)), PutAB))
    /\ sled_import(snap.snap.kvs) = hist[2]
    /\ IsSome(hist[2].GenericKV["a"])
    /\ IsSome(hist[2].GenericKV["b"])
    /\ hist[1].GenericKV["a"] = None

(***************************************************************************)
(* C29: the snapshot that build_snapshot returns beside apply is the state *)
(* after the entry it returns as last_applied: the LastApplied record      *)
(* among the dumped pairs is the returned log id, and the pairs are the    *)
(* records of the tree that the batch of that entry left.                  *)
(***************************************************************************)
C29_SnapshotConsistent ==
    snap.pc = "done" =>
        /\ kvs_get(snap.snap.kvs, <<"StateMachineMeta", "LastApplied">>) =
               Some(snap.last_applied)
        /\ sled_import(snap.snap.kvs) = hist[snap.at]


(***************************************************************************)
(* C30: open on a tree without Initialized writes Initialized = true and   *)
(* nothing else; open on a tree with it writes nothing.  After any number  *)
(* of opens, with entries applied between them, the tree holds the one     *)
(* record Initialized = true, and no open changed another key space.       *)
(***************************************************************************)
C30_OpenIdempotent ==
    [][/\ opens' = opens + 1 =>
              /\ sm_tree' = [sm_tree EXCEPT !.StateMachineMeta.Initialized = Some(TRUE)]
              /\ IsSome(sm_tree.StateMachineMeta.Initialized) => sm_tree' = sm_tree
       /\ opens' > 0 => sm_tree'.StateMachineMeta.Initialized = Some(TRUE)
       /\ opens' = 0 => sm_tree' = EmptyTree]_vars

\* Three opens and two applied entries: Initialized is true, and the
\* records of the entries are stored.
C30_Witness ==
    /\ opens = 3
    /\ commits = 2
    /\ sm_tree.StateMachineMeta.Initialized = Some(TRUE)
    /\ LastApplied = Some(LogId(1, 2))
    /\ IsSome(sm_tree.GenericKV["a"])
    /\ sm_tree.Nodes[1] = Some("n1")


(***************************************************************************)
(* C31: an executed IncrSeq of key returns Seq(v + 1) and stores v + 1,    *)
(* v being the value of the counter before (0 when it has none), and       *)
(* leaves every other counter as it was.  Over every step no counter of    *)
(* Sequences gets smaller, and none that is stored goes back to absent.    *)
(***************************************************************************)
C31_IncrSeq ==
    [][/\ \A k \in SeqNames : sm_tree'.Sequences[k] >= sm_tree.Sequences[k]
       /\ Executes("IncrSeq") =>
              /\ ret' = Ok(AppliedSeq(sm_tree.Sequences[entry'.payload.cmd.key] + 1))
              /\ sm_tree'.Sequences =
                     [sm_tree.Sequences EXCEPT
                         ![entry'.payload.cmd.key] =
                             sm_tree.Sequences[entry'.payload.cmd.key] + 1]]_vars

\* IncrSeq of "other" for the second time, at (1,3), after a record was
\* written: it returned 2, "other" is 2 and "generic-kv" is still 1.
C31_Witness ==
    /\ entry = Entry(LogId(1, 3), Normal(None, IncrSeq("other")))
    /\ ret = Ok(AppliedSeq(2))
    /\ sm_tree.Sequences["other"] = 2
    /\ sm_tree.Sequences[GenericKVName] = 1
    /\ IsSome(sm_tree.GenericKV["a"])


\* This step commits an UpsertKV with operation `op` whose seq precondition
\* holds of the record that the operation sees.
UpsertMatches(op) ==
    /\ IsCommit
    /\ IsUpsert(entry')
    /\ entry'.payload.cmd.value.tag = op
    /\ SeqMatches(entry'.payload.cmd.seq, Seen(entry'.payload.cmd.key))

\* The step wrote the one record `stored` for the key of its UpsertKV under
\* the next seq of "generic-kv", and returned it with the record seen before.
UpsertStored(stored) ==
    /\ stored.seq = sm_tree.Sequences[GenericKVName] + 1
    /\ sm_tree'.Sequences = [sm_tree.Sequences EXCEPT ![GenericKVName] = @ + 1]
    /\ sm_tree'.GenericKV =
           [sm_tree.GenericKV EXCEPT ![entry'.payload.cmd.key] = Some(stored)]
    /\ writes' = <<Insert(entry'.payload.cmd.key, stored)>>
    /\ ret' = Ok(AppliedKV(Seen(entry'.payload.cmd.key), Some(stored)))

(***************************************************************************)
(* C32: a committed UpsertKV Update whose seq precondition matches takes   *)
(* exactly one seq of "generic-kv" and stores the record with that seq,    *)
(* the meta of the request and the value of the request: a request without *)
(* meta leaves the record without meta, whatever meta and expire_at the    *)
(* record before had.  The Change returned has prev = the record the       *)
(* operation saw (None when hidden by its expire_at) and result = the      *)
(* stored record.                                                          *)
(***************************************************************************)
C32_UpdateStores ==
    [][UpsertMatches("Update") =>
           UpsertStored(SeqV(sm_tree.Sequences[GenericKVName] + 1,
                             entry'.payload.cmd.value_meta,
                             entry'.payload.cmd.value.v))]_vars

\* "a" held V2 with expire_at 100 at seq 1; an Update to V1 without meta
\* returned that record as prev and stored seq 2 without meta.
C32_Witness ==
    /\ entry.payload = Normal(None, UpsertA1)
    /\ ret = Ok(AppliedKV(Some(SeqV(1, MetaExpiring, V2)), Some(SeqV(2, None, V1))))
    /\ sm_tree.GenericKV["a"] = Some(SeqV(2, None, V1))
    /\ sm_tree.Sequences[GenericKVName] = 2

(***************************************************************************)
(* C33: a committed UpsertKV AsIs whose seq precondition matches, on a key *)
(* of which the operation sees no record (absent, or hidden by its         *)
(* expire_at), writes nothing, takes no seq and returns result = None; on  *)
(* a key whose record it sees it stores a record with the next seq of      *)
(* "generic-kv", the data of the record before and the meta of the         *)
(* request.                                                                *)
(***************************************************************************)
C33_AsIs ==
    [][UpsertMatches("AsIs") =>
           IF Seen(entry'.payload.cmd.key) = None
           THEN /\ OnlyLastAppliedChanges
                /\ writes' = << >>
                /\ ret' = Ok(AppliedKV(None, None))
           ELSE UpsertStored(SeqV(sm_tree.Sequences[GenericKVName] + 1,
                                  entry'.payload.cmd.value_meta,
                                  Unwrap(Seen(entry'.payload.cmd.key)).data))]_vars

\* "b" held V1 without meta at seq 1; AsIs with an expiring meta stored
\* seq 2 with the same data and that meta.
C33_Witness ==
    /\ entry.payload = Normal(None, UpsertKV("b", MatchAny, OpAsIs, MetaExpiring))
    /\ ret = Ok(AppliedKV(Some(SeqV(1, None, V1)), Some(SeqV(2, MetaExpiring, V1))))
    /\ sm_tree.GenericKV["b"] = Some(SeqV(2, MetaExpiring, V1))
    /\ sm_tree.Sequences[GenericKVName] = 2


(***************************************************************************)
(* C34: a committed Blank entry returns AppliedState::None and changes     *)
(* nothing but LastApplied; a committed Membership(m) entry returns        *)
(* AppliedState::None and changes nothing but LastApplied and              *)
(* LastMembership, which becomes {log_id: the entry's, membership: m}.     *)
(* GenericKV, Nodes, Sequences and ClientLastResps stay as they were.      *)
(***************************************************************************)
C34_BlankAndMembership ==
    [][/\ (IsCommit /\ entry'.payload.tag = "Blank") =>
              /\ ret' = Ok(AppliedNone)
              /\ sm_tree' = [sm_tree EXCEPT
                                !.StateMachineMeta.LastApplied = Some(entry'.log_id)]
       /\ (IsCommit /\ entry'.payload.tag = "Membership") =>
              /\ ret' = Ok(AppliedNone)
              /\ sm_tree' = [sm_tree EXCEPT
                                !.StateMachineMeta.LastApplied = Some(entry'.log_id),
                                !.StateMachineMeta.LastMembership =
                                    Some([log_id |-> entry'.log_id,
                                          membership |-> entry'.payload.mem])]]_vars

\* After an UpsertKV with txid and a Membership entry, a second Membership
\* entry at (1,3): LastMembership carries (1,3), and the record of "a",
\* the sequence and the client's record are as before.
C34_Witness ==
    /\ commits = 3
    /\ entry = Entry(LogId(1, 3), Membership("m1"))
    /\ ret = Ok(AppliedNone)
    /\ sm_tree.StateMachineMeta.LastMembership =
           Some([log_id |-> LogId(1, 3), membership |-> "m1"])
    /\ LastApplied = Some(LogId(1, 3))
    /\ sm_tree.GenericKV["a"] = Some(SeqV(1, None, V1))
    /\ sm_tree.Sequences[GenericKVName] = 1
    /\ IsSome(sm_tree.ClientLastResps["c1"])

\* Log id a is b or comes before it.
LogIdLe(a, b) == a = b \/ LogIdLess(a, b)

(***************************************************************************)
(* C39: after every committed apply, a LastMembership that is present      *)
(* carries a log id that is LastApplied or before it, and it is            *)
(* LastApplied exactly when the entry just applied is a Membership entry;  *)
(* a Normal or a Blank entry leaves LastMembership as it was.              *)
(***************************************************************************)
C39_MembershipLogId ==
    [][IsCommit =>
           /\ IsSome(sm_tree'.StateMachineMeta.LastMembership) =>
                  /\ LogIdLe(Unwrap(sm_tree'.StateMachineMeta.LastMembership).log_id,
                             Unwrap(sm_tree'.StateMachineMeta.LastApplied))
                  /\ (Unwrap(sm_tree'.StateMachineMeta.LastMembership).log_id =
                          Unwrap(sm_tree'.StateMachineMeta.LastApplied))
                         <=> entry'.payload.tag = "Membership"
           /\ entry'.payload.tag # "Membership" =>
                  sm_tree'.StateMachineMeta.LastMembership =
                      sm_tree.StateMachineMeta.LastMembership]_vars

\* A Membership entry at (1,1), then a new term, a Normal and a Blank
\* entry: LastMembership still carries (1,1) and LastApplied is (2,3).
C39_Witness ==
    /\ commits = 3
    /\ entry = Entry(LogId(2, 3), Blank)
    /\ sm_tree.StateMachineMeta.LastMembership =
           Some([log_id |-> LogId(1, 1), membership |-> "m1"])
    /\ LastApplied = Some(LogId(2, 3))
    /\ IsSome(sm_tree.GenericKV["a"])


\* The Put and Delete operations among ops.
NumPutsAndDeletes(ops) == Cardinality({i \in 1..Len(ops) : ops[i].tag \in {"Put", "Delete"}})

(***************************************************************************)
(* C35: a committed Transaction makes one subscriber call kv_changed for   *)
(* every Put and Delete of the branch it executed, and for every record it *)
(* wrote there is a call with the key and the record.                      *)
(***************************************************************************)
C35_TxnNotifies ==
    [][(IsCommit /\ IsTxn(entry')) =>
           /\ Len(kv_changed') = NumPutsAndDeletes(BranchTaken(entry', ret'))
           /\ \A i \in 1..Len(writes') :
                  \E j \in 1..Len(kv_changed') :
                      /\ kv_changed'[j].key = writes'[i].key
                      /\ kv_changed'[j].current = Some(writes'[i].value)]_vars

(***************************************************************************)
(* C36: when the batch of an apply ends with an error, apply returns       *)
(* Ok(AppliedState::AppError(e)) if the error is AppError(e), and Err of   *)
(* the very error otherwise.  So Err is returned only for an error of the  *)
(* batch that is not an AppError, and an AppError is never returned as     *)
(* Err.                                                                    *)
(***************************************************************************)
C36_AppErrorIsOk ==
    /\ IsSome(raised) =>
           ret = IF Unwrap(raised).tag = "AppError"
                 THEN Ok(AppliedAppError(Unwrap(raised).app_err))
                 ELSE Err(Unwrap(raised))
    /\ ret.kind = "Err" =>
           /\ IsSome(raised)
           /\ Unwrap(raised) \in StorageErrors
           /\ ret.err = Unwrap(raised)
    /\ (ret.kind = "Ok" /\ ret.state.tag = "AppError") => raised = Some(AppError)

\* After one committed entry, the batch of the UpsertKV at index 2 ended
\* with AppError: apply returned Ok(AppliedState::AppError).
C36_Witness ==
    /\ commits = 1
    /\ entry.payload = Normal(Some(Txid("c1", 7)), UpsertA1)
    /\ raised = Some(AppError)
    /\ ret = Ok(AppliedAppError("app-error"))


\* The latest Put or Delete of the key of ops[j] among the operations
\* before ops[j]; 0 if there is none.
LastWriteBefore(ops, j) ==
    Max({0} \cup {i \in 1..(j - 1) :
                     ops[i].tag \in {"Put", "Delete"} /\ ops[i].key = ops[j].key})

\* The Put operations among the first i of ops.
NumPutsUpTo(ops, i) == Cardinality({h \in 1..i : ops[h].tag = "Put"})

\* What a Get at place j of ops answers, the Transaction having started on
\* tree: the record that the latest Put of its key before it wrote, with
\* the seq issued to that Put; nothing after a Delete; the stored record of
\* the tree when no operation before it touched the key.
GetObserves(tree, ops, j) ==
    IF LastWriteBefore(ops, j) = 0
    THEN PbSeqV_opt(tree.GenericKV[ops[j].key])
    ELSE IF ops[LastWriteBefore(ops, j)].tag = "Delete"
    THEN None
    ELSE Some([seq |-> tree.Sequences[GenericKVName]
                          + NumPutsUpTo(ops, LastWriteBefore(ops, j)),
               data |-> ops[LastWriteBefore(ops, j)].value])

(***************************************************************************)
(* C37: in a committed Transaction a Get that follows a Put or a Delete of *)
(* its key in the executed branch answers with what that operation left:   *)
(* the value and the newly issued seq of the Put, or no value after the    *)
(* Delete, not the record from before the Transaction.  A Get changes      *)
(* nothing and takes no seq: the tree and the records written are those of *)
(* the branch without its Gets.                                            *)
(***************************************************************************)
C37_GetSeesEarlierOps ==
    [][(IsCommit /\ IsTxn(entry')) =>
           /\ Len(ret'.state.reply.responses) = Len(BranchTaken(entry', ret'))
           /\ \A j \in 1..Len(BranchTaken(entry', ret')) :
                  BranchTaken(entry', ret')[j].tag = "Get" =>
                      ret'.state.reply.responses[j] =
                          [tag |-> "Get",
                           key |-> BranchTaken(entry', ret')[j].key,
                           value |-> GetObserves(sm_tree, BranchTaken(entry', ret'), j)]
           /\ sm_tree' = txn_execute_ops(
                             Step(txn_insert_last_applied(sm_tree, entry'.log_id),
                                  << >>, << >>, << >>),
                             SelectSeq(BranchTaken(entry', ret'),
                                       LAMBDA op : op.tag # "Get"),
                             now).tree
           /\ Len(writes') = NumPuts(BranchTaken(entry', ret'))]_vars

\* "a" held V1 at seq 1.  The Transaction read it, put V2 and read seq 2
\* with V2, put "b", deleted "a" and read no value for "a", and seq 3 for
\* "b".
C37_Witness ==
    /\ IsTxn(entry)
    /\ ret.kind = "Ok"
    /\ Len(ret.state.reply.responses) = 7
    /\ ret.state.reply.responses[1] =
           [tag |-> "Get", key |-> "a", value |-> Some([seq |-> 1, data |-> V1])]
    /\ ret.state.reply.responses[3] =
           [tag |-> "Get", key |-> "a", value |-> Some([seq |-> 2, data |-> V2])]
    /\ ret.state.reply.responses[6] = [tag |-> "Get", key |-> "a", value |-> None]
    /\ ret.state.reply.responses[7] =
           [tag |-> "Get", key |-> "b", value |-> Some([seq |-> 3, data |-> V1])]
    /\ sm_tree.GenericKV["a"] = None
    /\ sm_tree.Sequences[GenericKVName] = 3


(***************************************************************************)
(* C38: every record stored in GenericKV has a seq of at least 1 and at    *)
(* most the value of the "generic-kv" sequence.                            *)
(***************************************************************************)
C38_SeqWithinCounter ==
    \A k \in Keys :
        IsSome(sm_tree.GenericKV[k]) =>
            /\ Unwrap(sm_tree.GenericKV[k]).seq >= 1
            /\ Unwrap(sm_tree.GenericKV[k]).seq <= sm_tree.Sequences[GenericKVName]

\* "a" was written at seq 1 with txid (c1,7), IncrSeq moved the sequence
\* to 3, and the same entry again was answered from the record: "a" holds
\* seq 1 under a sequence of 3.
C38_Witness ==
    /\ commits = 4
    /\ entry.payload = Normal(Some(Txid("c1", 7)), UpsertA1)
    /\ ret = Ok(AppliedKV(None, Some(SeqV(1, None, V1))))
    /\ sm_tree.GenericKV["a"] = Some(SeqV(1, None, V1))
    /\ sm_tree.Sequences[GenericKVName] = 3


\* The chunks one after the other.
RECURSIVE Concat(_)
Concat(chunks) == IF chunks = << >> THEN << >> ELSE Head(chunks) \o Concat(Tail(chunks))

\* ceil(n / 16)
NumChunks(n) == (n + 15) \div 16

(***************************************************************************)
(* C40: an ExportStream over a list of n strings yields them in the order  *)
(* of the list: the chunks yielded so far, followed by the data the stream *)
(* still holds, are the list.  The i-th chunk holds min(16, what was left) *)
(* strings and no chunk is empty.  The stream signals its end after        *)
(* ceil(n/16) chunks, at once when n = 0, and not before the chunks make   *)
(* up the whole list.                                                      *)
(***************************************************************************)
C40_ExportChunks ==
    export.pc \in {"streaming", "ended"} =>
        /\ Concat(export.chunks) \o export.data = export.input
        /\ \A i \in 1..Len(export.chunks) :
               /\ Len(export.chunks[i]) =
                      MinOf(16, Len(export.input) - 16 * (i - 1))
               /\ Len(export.chunks[i]) > 0
        /\ Len(export.chunks) <= NumChunks(Len(export.input))
        /\ export.data = << >> <=> Len(export.chunks) = NumChunks(Len(export.input))
        /\ export.pc = "ended" =>
               /\ Len(export.chunks) = NumChunks(Len(export.input))
               /\ Concat(export.chunks) = export.input

\* A stream over 33 strings ended after chunks of 16, 16 and 1.
C40_Witness ==
    /\ export.pc = "ended"
    /\ Len(export.input) = 33
    /\ Len(export.chunks) = 3
    /\ Len(export.chunks[1]) = 16
    /\ Len(export.chunks[2]) = 16
    /\ export.chunks[3] = <<"33">>

=============================================================================
